---- MODULE Spec2Model ----
(***************************************************************************)
(* Verification model of the interactive raytracer (Proyecto-2-Graficas).  *)
(*                                                                         *)
(* Spec        the frame loop of main(): camera flag, input, the           *)
(*             adaptive/full/progressive scheduler and the framebuffer.    *)
(*                                                                         *)
(* SpecCube    single calls of Cube::ray_intersect on bounded inputs.      *)
(* SpecRay     single calls of cast_ray, reflect and refract.              *)
(* SpecCamera  Camera::new, orbit, zoom, is_changed with exact vectors.    *)
(* SpecOrbit   Camera::orbit on angles in hundredths of a radian.          *)
(* SpecAdaptive  single calls of render_adaptive on an empty framebuffer.  *)
(* SpecTexture the texture and normal-map stage of cast_ray for one hit.   *)
(* SpecScene   the frame loop together with the global scene rotation.     *)
(* SpecLive    the frame loop under weak fairness of the loop body.        *)
(*                                                                         *)
(* The body of one loop iteration is split at the places where the claims  *)
(* observe it: "input" (main.rs 838-930), "reset" (932-939), "lod"         *)
(* (941-946) and "render" (948-981).  The steps always run in this order.  *)
(*                                                                         *)
(* Colours are symbolic terms: <<"bg">> is the background, <<"ray",x,y>>   *)
(* the colour cast_ray returns for the primary ray through pixel (x,y),    *)
(* <<"dark",c>> is c scaled by 0.8 and <<"blend",a,c,7>> the 0.3/0.7 mix   *)
(* of the stored colour a with the new colour c.  The eye a pass rendered  *)
(* from is kept in the variable pass.                                      *)
(***************************************************************************)
EXTENDS Integers, Naturals, Sequences, FiniteSets, TLC

\* ------------------------------------------------------------------ bounds
MaxWidth == 3
MaxHeight == 2
MaxSamples == 2
MaxFrames == 32
YawPeriod == 2
MaxPitch == 0
MaxRadius == 2

VARIABLES
    pc,                          \* position in the body of the frame loop
    camera,                      \* Camera: eye and the dirty flag
    framebuffer,                 \* Framebuffer: size, pixels, current colour, ops of the frame
    samples_per_frame,
    current_sample,
    render_complete,
    frames_since_camera_change,
    use_progressive,
    current_lod,
    target_lod,
    camera_was_changed,
    pass,                        \* the render call made by the latest "render" step
    hist,                        \* history of the episode / sweep (observation only)
    probe                        \* one call of a pure function: its arguments and its result

vars == <<pc, camera, framebuffer, samples_per_frame, current_sample,
          render_complete, frames_since_camera_change, use_progressive,
          current_lod, target_lod, camera_was_changed, pass, hist, probe>>

\* the variables of the frame loop
loopVars == <<pc, camera, framebuffer, samples_per_frame, current_sample,
              render_complete, frames_since_camera_change, use_progressive,
              current_lod, target_lod, camera_was_changed, pass, hist>>

Min(a, b) == IF a < b THEN a ELSE b
Max(a, b) == IF a > b THEN a ELSE b
CeilDiv(a, b) == (a + b - 1) \div b

\* ------------------------------------------------------------------ camera
\* The eye is kept in the spherical coordinates orbit() works in, in units of
\* one orbit step (rotation_speed) and one zoom step.
Clamp(v, lo, hi) == IF v < lo THEN lo ELSE IF v > hi THEN hi ELSE v

UpdateBasisVectors(cam) == [cam EXCEPT !.changed = TRUE]

CameraNew(eye) == UpdateBasisVectors([eye |-> eye, changed |-> TRUE])

Orbit(cam, yaw, pitch) ==
    UpdateBasisVectors(
        [cam EXCEPT !.eye = [yaw    |-> (cam.eye.yaw + yaw) % YawPeriod,
                             pitch  |-> Clamp(cam.eye.pitch + pitch, -MaxPitch, MaxPitch),
                             radius |-> cam.eye.radius]])

Zoom(cam, amount) ==
    UpdateBasisVectors([cam EXCEPT !.eye.radius = cam.eye.radius - amount])

ZoomIn(cam, amount) == Zoom(cam, amount)
ZoomOut(cam, amount) == Zoom(cam, -amount)

\* is_changed() that reads the flag without clearing it
IsChanged_NoClear(cam) == [ret |-> cam.changed, cam |-> cam]

IsChanged(cam) == [ret |-> cam.changed, cam |-> [cam EXCEPT !.changed = FALSE]]

\* ------------------------------------------------------------- framebuffer
BackgroundColor == <<"bg">>
WhiteColor == <<"white">>

FramebufferNew(w, h) ==
    [width |-> w, height |-> h,
     pixel_data |-> [i \in 0..(w * h - 1) |-> BackgroundColor],
     current_color |-> WhiteColor,
     ops |-> <<>>]

Clear(fb) ==
    [fb EXCEPT !.pixel_data = [i \in DOMAIN fb.pixel_data |-> BackgroundColor],
               !.ops = Append(fb.ops, <<"clear">>)]

SetCurrentColor(fb, c) == [fb EXCEPT !.current_color = c]

SetPixel(fb, x, y) ==
    IF x < fb.width /\ y < fb.height
    THEN [fb EXCEPT !.pixel_data[y * fb.width + x] = fb.current_color,
                    !.ops = Append(fb.ops, <<"set", x, y>>)]
    ELSE fb

BlendColor(cur, c, alpha) == <<"blend", cur, c, alpha>>

BlendPixel(fb, x, y, c, alpha) ==
    IF x < fb.width /\ y < fb.height
    THEN [fb EXCEPT !.pixel_data[y * fb.width + x] = BlendColor(fb.pixel_data[y * fb.width + x], c, alpha),
                    !.ops = Append(fb.ops, <<"blend", x, y>>)]
    ELSE fb

\* --------------------------------------------------------------- rendering
\* the colour of the primary ray through pixel (x, y)
PixelColor(cam, x, y) == <<"ray", x, y>>

\* pixels lo .. hi-1 in raster order, one sample each
RECURSIVE RasterLoop(_, _, _, _)
RasterLoop(fb, cam, lo, hi) ==
    IF lo >= hi THEN fb
    ELSE LET x == lo % fb.width
             y == lo \div fb.width
         IN  RasterLoop(SetPixel(SetCurrentColor(fb, PixelColor(cam, x, y)), x, y),
                        cam, lo + 1, hi)

\* render() that paints over the buffer without clearing it
Render_NoClear(fb, cam) == RasterLoop(fb, cam, 0, fb.width * fb.height)

Render(fb, cam) == RasterLoop(Clear(fb), cam, 0, fb.width * fb.height)

EdgeColor(c) == <<"dark", c>>

RECURSIVE FillLoop(_, _, _, _, _, _)
FillLoop(fb, base_x, base_y, color, size, j) ==
    IF j >= size * size THEN fb
    ELSE LET dx == j % size
             dy == j \div size
             px == base_x + dx
             py == base_y + dy
             adjusted == IF dx = 0 \/ dy = 0 \/ dx = size - 1 \/ dy = size - 1
                         THEN EdgeColor(color) ELSE color
         IN  FillLoop(IF px < fb.width /\ py < fb.height
                      THEN SetPixel(SetCurrentColor(fb, adjusted), px, py)
                      ELSE fb,
                      base_x, base_y, color, size, j + 1)

FillAdaptiveBlock(fb, base_x, base_y, color, size) ==
    FillLoop(SetCurrentColor(fb, color), base_x, base_y, color, size, 0)

\* every coarse LOD samples on a stride of 2
StepSize_AllTwo(lod_level) == IF lod_level <= 2 THEN 1 ELSE 2

StepSize(lod_level) ==
    CASE lod_level = 1 -> 1
      [] lod_level = 2 -> 1
      [] lod_level = 3 -> 2
      [] lod_level = 4 -> 3
      [] OTHER -> 4

JitterPattern == <<<<0, 0>>, <<1, 0>>, <<0, 1>>, <<1, 1>>>>
\* <<TRUE, offset>> for LOD 2, <<FALSE, _>> otherwise
JitterOffset(lod_level) ==
    IF lod_level = 2 THEN <<TRUE, JitterPattern[(lod_level % 4) + 1]>>
    ELSE <<FALSE, <<0, 0>>>>

RECURSIVE AdaptiveLoop(_, _, _, _)
AdaptiveLoop(fb, cam, lod_level, i) ==
    LET step == StepSize(lod_level)
        cols == CeilDiv(fb.width, step)
        rows == CeilDiv(fb.height, step)
    IN  IF i >= rows * cols THEN fb
        ELSE LET x == (i % cols) * step
                 y == (i \div cols) * step
                 jit == JitterOffset(lod_level)
                 actual_x == IF jit[1] THEN Min(x + jit[2][1], fb.width - 1) ELSE x
                 actual_y == IF jit[1] THEN Min(y + jit[2][2], fb.height - 1) ELSE y
                 pixel_color == PixelColor(cam, actual_x, actual_y)
                 fb1 == CASE lod_level = 1 -> SetPixel(SetCurrentColor(fb, pixel_color), actual_x, actual_y)
                          [] lod_level = 2 -> BlendPixel(fb, actual_x, actual_y, pixel_color, 7)
                          [] lod_level = 3 -> FillAdaptiveBlock(fb, x, y, pixel_color, 2)
                          [] lod_level = 4 -> FillAdaptiveBlock(fb, x, y, pixel_color, 3)
                          [] OTHER -> FillAdaptiveBlock(fb, x, y, pixel_color, 4)
             IN  AdaptiveLoop(fb1, cam, lod_level, i + 1)

RenderAdaptive(fb, cam, lod_level) ==
    AdaptiveLoop(IF lod_level >= 4 THEN Clear(fb) ELSE fb, cam, lod_level, 0)

\* render_progressive() that ignores the cursor and starts every chunk at pixel 0
RenderProgressive_Restart(fb, cam, samples, cursor) ==
    LET total_pixels == fb.width * fb.height
        fb0 == IF cursor = 0 THEN Clear(fb) ELSE fb
        end_pixel == Min(cursor + samples, total_pixels)
    IN  [fb |-> RasterLoop(fb0, cam, 0, Min(samples, total_pixels)),
         current_sample |-> end_pixel,
         done |-> end_pixel >= total_pixels]

\* render_progressive that never reports completion
RenderProgressive_NeverDone(fb, cam, samples, cursor) ==
    LET total_pixels == fb.width * fb.height
        fb0 == IF cursor = 0 THEN Clear(fb) ELSE fb
        start_pixel == cursor
        end_pixel == Min(start_pixel + samples, total_pixels)
    IN  [fb |-> RasterLoop(fb0, cam, start_pixel, end_pixel),
         current_sample |-> end_pixel,
         done |-> FALSE]

\* returns the framebuffer, the new cursor and the completion flag
RenderProgressive(fb, cam, samples, cursor) ==
    LET total_pixels == fb.width * fb.height
        fb0 == IF cursor = 0 THEN Clear(fb) ELSE fb
        start_pixel == cursor
        end_pixel == Min(start_pixel + samples, total_pixels)
    IN  [fb |-> RasterLoop(fb0, cam, start_pixel, end_pixel),
         current_sample |-> end_pixel,
         done |-> end_pixel >= total_pixels]

\* -------------------------------------------------------------- frame loop
Keys == {"LEFT", "RIGHT", "UP", "DOWN", "W", "S"}
OrbitStep == 1
ZoomStep == 1

CameraAfter(cam, keys, upto) ==
    LET c1 == IF "LEFT" \in keys THEN Orbit(cam, OrbitStep, 0) ELSE cam
        c2 == IF "RIGHT" \in keys THEN Orbit(c1, -OrbitStep, 0) ELSE c1
        c3 == IF "UP" \in keys THEN Orbit(c2, 0, -OrbitStep) ELSE c2
        c4 == IF "DOWN" \in keys THEN Orbit(c3, 0, OrbitStep) ELSE c3
        c5 == IF "W" \in keys THEN ZoomIn(c4, ZoomStep) ELSE c4
        c6 == IF "S" \in keys THEN ZoomOut(c5, ZoomStep) ELSE c5
    IN  CASE upto = 4 -> c4 [] upto = 5 -> c5 [] OTHER -> c6

ApplyKeys(cam, keys) == CameraAfter(cam, keys, 6)

\* the eye stays between one zoom step and MaxRadius zoom steps from the center
KeysInRange(cam, keys) ==
    /\ "W" \in keys => CameraAfter(cam, keys, 4).eye.radius - ZoomStep >= 1
    /\ "S" \in keys => CameraAfter(cam, keys, 5).eye.radius + ZoomStep <= MaxRadius

NoPass == [fn |-> "none", phase |-> "none", lod |-> 0, eye |-> [yaw |-> 0, pitch |-> 0, radius |-> 0],
           start |-> 0, done |-> FALSE]

NoPre == [lod |-> 0, render_complete |-> FALSE, use_progressive |-> FALSE]

\* hist observes the run and never influences it:
\*   mutated      the camera was constructed or mutated since the last is_changed()
\*   pre          scheduler state just before the latest episode reset (kept for one step)
\*   discarded    the latest reset interrupted an incomplete progressive sweep
\*   elapsed      frames_since_camera_change before the increment of this frame
\*   full_runs    calls of render() in this episode
\*   chunks       calls of render_progressive() in this episode
\*   sweep_calls  calls of render_progressive() since the cursor was last 0
\*   sweep_writes pixels written since the cursor was last 0, in order
NoProbe == [fn |-> "none"]

InitHist == [mutated |-> TRUE, pre |-> NoPre, discarded |-> FALSE, elapsed |-> 0,
             full_runs |-> 0, chunks |-> 0, sweep_calls |-> 0, sweep_writes |-> <<>>]

Init ==
    /\ pc = "input"
    /\ camera = CameraNew([yaw |-> 0, pitch |-> 0, radius |-> 1])
    /\ framebuffer \in {FramebufferNew(w, h) : w \in 1..MaxWidth, h \in 1..MaxHeight}
    /\ samples_per_frame \in 1..MaxSamples
    /\ current_sample = 0
    /\ render_complete = FALSE
    /\ frames_since_camera_change = 0
    /\ use_progressive = FALSE
    /\ current_lod = 4
    /\ target_lod = 1
    /\ camera_was_changed = FALSE
    /\ pass = NoPass
    /\ hist = InitHist
    /\ probe = NoProbe

\* frame input that applies the camera keys before it reads the flag
Input_FlagAfterKeys ==
    /\ pc = "input"
    /\ frames_since_camera_change < MaxFrames
    /\ \E keys \in SUBSET Keys :
          /\ KeysInRange(camera, keys)
          /\ camera_was_changed' = IsChanged(ApplyKeys(camera, keys)).ret
          /\ camera' = IsChanged(ApplyKeys(camera, keys)).cam
          /\ hist' = [hist EXCEPT !.mutated = (keys # {})]
    /\ pc' = "reset"
    /\ UNCHANGED probe
    /\ UNCHANGED <<framebuffer, samples_per_frame, current_sample, render_complete,
                   frames_since_camera_change, use_progressive, current_lod, target_lod,
                   pass>>

\* main.rs 850-894: read and clear the camera flag, then apply the camera keys
Input ==
    /\ pc = "input"
    /\ frames_since_camera_change < MaxFrames
    /\ \E keys \in SUBSET Keys :
          /\ KeysInRange(IsChanged(camera).cam, keys)
          /\ camera_was_changed' = IsChanged(camera).ret
          /\ camera' = ApplyKeys(IsChanged(camera).cam, keys)
          /\ hist' = [hist EXCEPT !.mutated = (keys # {})]
    /\ pc' = "reset"
    /\ UNCHANGED probe
    /\ UNCHANGED <<framebuffer, samples_per_frame, current_sample, render_complete,
                   frames_since_camera_change, use_progressive, current_lod, target_lod,
                   pass>>

\* episode reset that forgets current_lod
Reset_KeepsLod ==
    /\ pc = "reset"
    /\ IF camera_was_changed
       THEN /\ frames_since_camera_change' = 0
            /\ use_progressive' = FALSE
            /\ target_lod' = 1
            /\ render_complete' = FALSE
            /\ hist' = [hist EXCEPT
                  !.pre = [lod |-> current_lod, render_complete |-> render_complete,
                           use_progressive |-> use_progressive],
                  !.discarded = (use_progressive /\ ~render_complete),
                  !.full_runs = 0, !.chunks = 0, !.sweep_calls = 0, !.sweep_writes = <<>>]
            /\ UNCHANGED current_lod
       ELSE UNCHANGED <<frames_since_camera_change, use_progressive, current_lod,
                        target_lod, render_complete, hist>>
    /\ pc' = "lod"
    /\ UNCHANGED probe
    /\ UNCHANGED <<camera, framebuffer, samples_per_frame, current_sample,
                   camera_was_changed, pass>>

\* episode reset that stays in progressive mode
Reset_KeepsProgressive ==
    /\ pc = "reset"
    /\ IF camera_was_changed
       THEN /\ frames_since_camera_change' = 0
            /\ current_lod' = 4
            /\ target_lod' = 1
            /\ render_complete' = FALSE
            /\ hist' = [hist EXCEPT
                  !.pre = [lod |-> current_lod, render_complete |-> render_complete,
                           use_progressive |-> use_progressive],
                  !.discarded = (use_progressive /\ ~render_complete),
                  !.full_runs = 0, !.chunks = 0, !.sweep_calls = 0, !.sweep_writes = <<>>]
            /\ UNCHANGED use_progressive
       ELSE UNCHANGED <<frames_since_camera_change, use_progressive, current_lod,
                        target_lod, render_complete, hist>>
    /\ pc' = "lod"
    /\ UNCHANGED probe
    /\ UNCHANGED <<camera, framebuffer, samples_per_frame, current_sample,
                   camera_was_changed, pass>>

\* episode reset that is also triggered by a list built with a new angle
Reset_OnRotation ==
    /\ pc = "reset"
    /\ IF camera_was_changed \/ (probe.fn = "scene" /\ probe.moved)
       THEN /\ frames_since_camera_change' = 0
            /\ use_progressive' = FALSE
            /\ current_lod' = 4
            /\ target_lod' = 1
            /\ render_complete' = FALSE
            /\ hist' = [hist EXCEPT
                  !.pre = [lod |-> current_lod, render_complete |-> render_complete,
                           use_progressive |-> use_progressive],
                  !.discarded = (use_progressive /\ ~render_complete),
                  !.full_runs = 0, !.chunks = 0, !.sweep_calls = 0, !.sweep_writes = <<>>]
       ELSE UNCHANGED <<frames_since_camera_change, use_progressive, current_lod,
                        target_lod, render_complete, hist>>
    /\ pc' = "lod"
    /\ UNCHANGED probe
    /\ UNCHANGED <<camera, framebuffer, samples_per_frame, current_sample,
                   camera_was_changed, pass>>

\* main.rs 932-939
Reset ==
    /\ pc = "reset"
    /\ IF camera_was_changed
       THEN /\ frames_since_camera_change' = 0
            /\ use_progressive' = FALSE
            /\ current_lod' = 4
            /\ target_lod' = 1
            /\ render_complete' = FALSE
            /\ hist' = [hist EXCEPT
                  !.pre = [lod |-> current_lod, render_complete |-> render_complete,
                           use_progressive |-> use_progressive],
                  !.discarded = (use_progressive /\ ~render_complete),
                  !.full_runs = 0, !.chunks = 0, !.sweep_calls = 0, !.sweep_writes = <<>>]
       ELSE UNCHANGED <<frames_since_camera_change, use_progressive, current_lod,
                        target_lod, render_complete, hist>>
    /\ pc' = "lod"
    /\ UNCHANGED probe
    /\ UNCHANGED <<camera, framebuffer, samples_per_frame, current_sample,
                   camera_was_changed, pass>>

\* LOD adjustment on every frame instead of every second frame
NextLod_EveryFrame(frames, lod, target) ==
    IF lod > target THEN Max(lod - 1, target) ELSE lod

\* LOD adjustment on the odd frames instead of the even ones
NextLod_OddFrames(frames, lod, target) ==
    IF frames % 2 = 1 /\ lod > target THEN Max(lod - 1, target) ELSE lod

\* main.rs 942-944
NextLod(frames, lod, target) ==
    IF frames % 2 = 0 /\ lod > target THEN Max(lod - 1, target) ELSE lod

\* main.rs 941-946
AdjustLod ==
    /\ pc = "lod"
    /\ current_lod' = NextLod(frames_since_camera_change, current_lod, target_lod)
    /\ frames_since_camera_change' = frames_since_camera_change + 1
    /\ hist' = [hist EXCEPT !.elapsed = frames_since_camera_change, !.pre = NoPre]
    /\ pc' = "render"
    /\ UNCHANGED probe
    /\ UNCHANGED <<camera, framebuffer, samples_per_frame, current_sample, render_complete,
                   use_progressive, target_lod, camera_was_changed, pass>>

\* the (x, y) of the "set" operations of a frame, in order
RECURSIVE SetsOf(_)
SetsOf(ops) ==
    IF ops = <<>> THEN <<>>
    ELSE IF Head(ops)[1] = "set" THEN <<<<Head(ops)[2], Head(ops)[3]>>>> \o SetsOf(Tail(ops))
    ELSE SetsOf(Tail(ops))

\* phase thresholds compared with < instead of <=
PhaseOf_Strict(frames) ==
    IF frames < 8 THEN "adaptive" ELSE IF frames < 20 THEN "full" ELSE "progressive"

\* main.rs 949, 952, 958: the branch taken for a value of the frame counter
PhaseOf(frames) ==
    IF frames <= 8 THEN "adaptive" ELSE IF frames <= 20 THEN "full" ELSE "progressive"

FrameStart == [framebuffer EXCEPT !.ops = <<>>]
PassBase(phase) == [NoPass EXCEPT !.eye = camera.eye, !.phase = phase]

\* main.rs 949-951
AdaptivePhase ==
    /\ framebuffer' = RenderAdaptive(FrameStart, camera, current_lod)
    /\ pass' = [PassBase("adaptive") EXCEPT !.fn = "render_adaptive", !.lod = current_lod]
    /\ UNCHANGED <<current_sample, render_complete, use_progressive, hist>>

\* full phase that never marks the render complete
FullPhase_NeverComplete ==
    IF ~render_complete
    THEN /\ framebuffer' = Render(FrameStart, camera)
         /\ pass' = [PassBase("full") EXCEPT !.fn = "render"]
         /\ hist' = [hist EXCEPT !.full_runs = hist.full_runs + 1]
         /\ UNCHANGED <<current_sample, use_progressive, render_complete>>
    ELSE /\ framebuffer' = FrameStart
         /\ pass' = PassBase("full")
         /\ UNCHANGED <<current_sample, render_complete, use_progressive, hist>>

\* main.rs 952-957
FullPhase ==
    IF ~render_complete
    THEN /\ framebuffer' = Render(FrameStart, camera)
         /\ render_complete' = TRUE
         /\ pass' = [PassBase("full") EXCEPT !.fn = "render"]
         /\ hist' = [hist EXCEPT !.full_runs = hist.full_runs + 1]
         /\ UNCHANGED <<current_sample, use_progressive>>
    ELSE /\ framebuffer' = FrameStart
         /\ pass' = PassBase("full")
         /\ UNCHANGED <<current_sample, render_complete, use_progressive, hist>>

\* main.rs 958-978
ProgressivePhase ==
    LET cursor == IF ~use_progressive THEN 0 ELSE current_sample
        complete == IF ~use_progressive THEN FALSE ELSE render_complete
        r == RenderProgressive(FrameStart, camera, samples_per_frame, cursor)
    IN  /\ use_progressive' = TRUE
        /\ IF ~complete
           THEN /\ framebuffer' = r.fb
                /\ current_sample' = r.current_sample
                /\ render_complete' = r.done
                /\ pass' = [PassBase("progressive") EXCEPT !.fn = "render_progressive",
                                                           !.start = cursor, !.done = r.done]
                /\ hist' = [hist EXCEPT
                      !.chunks = hist.chunks + 1,
                      !.sweep_calls = IF cursor = 0 THEN 1 ELSE hist.sweep_calls + 1,
                      !.sweep_writes = IF cursor = 0 THEN SetsOf(r.fb.ops)
                                       ELSE hist.sweep_writes \o SetsOf(r.fb.ops)]
           ELSE /\ framebuffer' = FrameStart
                /\ current_sample' = cursor
                /\ render_complete' = complete
                /\ pass' = PassBase("progressive")
                /\ UNCHANGED hist

\* main.rs 948-981
RenderPhase ==
    /\ pc = "render"
    /\ CASE PhaseOf(frames_since_camera_change) = "adaptive" -> AdaptivePhase
         [] PhaseOf(frames_since_camera_change) = "full" -> FullPhase
         [] OTHER -> ProgressivePhase
    /\ pc' = "input"
    /\ UNCHANGED probe
    /\ UNCHANGED <<camera, samples_per_frame, frames_since_camera_change, current_lod,
                   target_lod, camera_was_changed>>

Next == Input \/ Reset \/ AdjustLod \/ RenderPhase

Spec == Init /\ [][Next]_vars

TypeOK ==
    /\ pc \in {"input", "reset", "lod", "render"}
    /\ current_lod \in 1..4
    /\ current_sample \in 0..(framebuffer.width * framebuffer.height)

\* ----------------------------------------------------------------- vectors
\* Coordinates are integers (fixed point, the unit is chosen by the
\* specification that uses them) and directions have components in -1..1,
\* so that every product and quotient below is exact, as it is in f32 for
\* these magnitudes.
VAdd(a, b) == <<a[1] + b[1], a[2] + b[2], a[3] + b[3]>>
VSub(a, b) == <<a[1] - b[1], a[2] - b[2], a[3] - b[3]>>
VScale(a, k) == <<a[1] * k, a[2] * k, a[3] * k>>
VNeg(a) == <<-a[1], -a[2], -a[3]>>
Dot(a, b) == a[1] * b[1] + a[2] * b[2] + a[3] * b[3]
VZero == <<0, 0, 0>>
Abs(x) == IF x < 0 THEN -x ELSE x
\* f32::signum: 1.0 for positive numbers and +0.0, -1.0 for negative numbers
Signum(x) == IF x < 0 THEN -1 ELSE 1
Min3(a, b, c) == Min(Min(a, b), c)
Max3(a, b, c) == Max(Max(a, b), c)

\* ---------------------------------------------------------------- material
NoId == "none"
\* a placeholder that reflects
MaterialBlack_Reflective ==
    [diffuse |-> VZero, albedo |-> <<0, 0, 1, 0>>, specular |-> 0,
     refractive_index |-> <<0, 1>>, texture_id |-> NoId, normal_map_id |-> NoId]

MaterialBlack ==
    [diffuse |-> VZero, albedo |-> <<0, 0, 0, 0>>, specular |-> 0,
     refractive_index |-> <<0, 1>>, texture_id |-> NoId, normal_map_id |-> NoId]

\* --------------------------------------------------------------- intersect
IntersectEmpty ==
    [point |-> VZero, normal |-> VZero, distance |-> 0, is_intersecting |-> FALSE,
     material |-> MaterialBlack, u |-> <<0, 1>>, v |-> <<0, 1>>]

IntersectNew(point, normal, distance, material, u, v) ==
    [point |-> point, normal |-> normal, distance |-> distance, is_intersecting |-> TRUE,
     material |-> material, u |-> u, v |-> v]

\* --------------------------------------------------------------------- cube
\* A cube is [center, size, material]; size is even, so size / 2 is exact.
BigInverse == 1000000

\* 1e6 for |d| < 1e-6, else 1/d; for d in {-1, 1} the quotient 1/d is d
InvDir(d) == IF d = 0 THEN BigInverse ELSE d

\* u and v are fractions <<numerator, denominator>>
\* get_uv that picks the face from the hit point, first largest coordinate
GetUV_FromPoint(cube, point, normal) ==
    LET half_size == cube.size \div 2
        local_point == VSub(point, cube.center)
        onX == \A b \in 1..3 : Abs(local_point[1]) >= Abs(local_point[b])
        onY == ~onX /\ Abs(local_point[2]) >= Abs(local_point[3])
        a == IF onX THEN local_point[3] ELSE local_point[1]
        b == IF onX THEN local_point[2]
             ELSE IF onY THEN local_point[3]
             ELSE local_point[2]
    IN  <<(<<a + half_size, cube.size>>), (<<cube.size - (b + half_size), cube.size>>)>>

GetUV(cube, point, normal) ==
    LET half_size == cube.size \div 2
        local_point == VSub(point, cube.center)
        a == IF Abs(normal[1]) = 1 THEN local_point[3] ELSE local_point[1]
        b == IF Abs(normal[1]) = 1 THEN local_point[2]
             ELSE IF Abs(normal[2]) = 1 THEN local_point[3]
             ELSE local_point[2]
    IN  <<(<<a + half_size, cube.size>>), (<<cube.size - (b + half_size), cube.size>>)>>

\* ray_intersect that keeps the near slab parameter for an origin inside the box
RayIntersect_AlwaysNear(cube, ray_origin, ray_direction) ==
    LET half_size == cube.size \div 2
        min == VSub(cube.center, <<half_size, half_size, half_size>>)
        max == VAdd(cube.center, <<half_size, half_size, half_size>>)
        inv_dir == <<InvDir(ray_direction[1]), InvDir(ray_direction[2]), InvDir(ray_direction[3])>>
        t1 == (min[1] - ray_origin[1]) * inv_dir[1]
        t2 == (max[1] - ray_origin[1]) * inv_dir[1]
        t3 == (min[2] - ray_origin[2]) * inv_dir[2]
        t4 == (max[2] - ray_origin[2]) * inv_dir[2]
        t5 == (min[3] - ray_origin[3]) * inv_dir[3]
        t6 == (max[3] - ray_origin[3]) * inv_dir[3]
        tmin == Max3(Min(t1, t2), Min(t3, t4), Min(t5, t6))
        tmax == Min3(Max(t1, t2), Max(t3, t4), Max(t5, t6))
        t == tmin
        point == VAdd(ray_origin, VScale(ray_direction, t))
        local_point == VSub(point, cube.center)
        normal == IF Abs(local_point[1]) > Abs(local_point[2]) /\ Abs(local_point[1]) > Abs(local_point[3])
                  THEN <<Signum(local_point[1]), 0, 0>>
                  ELSE IF Abs(local_point[2]) > Abs(local_point[3])
                  THEN <<0, Signum(local_point[2]), 0>>
                  ELSE <<0, 0, Signum(local_point[3])>>
        uv == GetUV(cube, point, normal)
    IN  IF tmax < 0 THEN IntersectEmpty
        ELSE IF tmin > tmax THEN IntersectEmpty
        ELSE IF t <= 0 THEN IntersectEmpty
        ELSE IntersectNew(point, normal, t, cube.material, uv[1], uv[2])

\* ray_intersect whose face tests are >= instead of >
RayIntersect_TieFirst(cube, ray_origin, ray_direction) ==
    LET half_size == cube.size \div 2
        min == VSub(cube.center, <<half_size, half_size, half_size>>)
        max == VAdd(cube.center, <<half_size, half_size, half_size>>)
        inv_dir == <<InvDir(ray_direction[1]), InvDir(ray_direction[2]), InvDir(ray_direction[3])>>
        t1 == (min[1] - ray_origin[1]) * inv_dir[1]
        t2 == (max[1] - ray_origin[1]) * inv_dir[1]
        t3 == (min[2] - ray_origin[2]) * inv_dir[2]
        t4 == (max[2] - ray_origin[2]) * inv_dir[2]
        t5 == (min[3] - ray_origin[3]) * inv_dir[3]
        t6 == (max[3] - ray_origin[3]) * inv_dir[3]
        tmin == Max3(Min(t1, t2), Min(t3, t4), Min(t5, t6))
        tmax == Min3(Max(t1, t2), Max(t3, t4), Max(t5, t6))
        t == IF tmin > 0 THEN tmin ELSE tmax
        point == VAdd(ray_origin, VScale(ray_direction, t))
        local_point == VSub(point, cube.center)
        normal == IF Abs(local_point[1]) >= Abs(local_point[2]) /\ Abs(local_point[1]) >= Abs(local_point[3])
                  THEN <<Signum(local_point[1]), 0, 0>>
                  ELSE IF Abs(local_point[2]) >= Abs(local_point[3])
                  THEN <<0, Signum(local_point[2]), 0>>
                  ELSE <<0, 0, Signum(local_point[3])>>
        uv == GetUV(cube, point, normal)
    IN  IF tmax < 0 THEN IntersectEmpty
        ELSE IF tmin > tmax THEN IntersectEmpty
        ELSE IF t <= 0 THEN IntersectEmpty
        ELSE IntersectNew(point, normal, t, cube.material, uv[1], uv[2])

RayIntersect(cube, ray_origin, ray_direction) ==
    LET half_size == cube.size \div 2
        min == VSub(cube.center, <<half_size, half_size, half_size>>)
        max == VAdd(cube.center, <<half_size, half_size, half_size>>)
        inv_dir == <<InvDir(ray_direction[1]), InvDir(ray_direction[2]), InvDir(ray_direction[3])>>
        t1 == (min[1] - ray_origin[1]) * inv_dir[1]
        t2 == (max[1] - ray_origin[1]) * inv_dir[1]
        t3 == (min[2] - ray_origin[2]) * inv_dir[2]
        t4 == (max[2] - ray_origin[2]) * inv_dir[2]
        t5 == (min[3] - ray_origin[3]) * inv_dir[3]
        t6 == (max[3] - ray_origin[3]) * inv_dir[3]
        tmin == Max3(Min(t1, t2), Min(t3, t4), Min(t5, t6))
        tmax == Min3(Max(t1, t2), Max(t3, t4), Max(t5, t6))
        t == IF tmin > 0 THEN tmin ELSE tmax
        point == VAdd(ray_origin, VScale(ray_direction, t))
        local_point == VSub(point, cube.center)
        normal == IF Abs(local_point[1]) > Abs(local_point[2]) /\ Abs(local_point[1]) > Abs(local_point[3])
                  THEN <<Signum(local_point[1]), 0, 0>>
                  ELSE IF Abs(local_point[2]) > Abs(local_point[3])
                  THEN <<0, Signum(local_point[2]), 0>>
                  ELSE <<0, 0, Signum(local_point[3])>>
        uv == GetUV(cube, point, normal)
    IN  IF tmax < 0 THEN IntersectEmpty
        ELSE IF tmin > tmax THEN IntersectEmpty
        ELSE IF t <= 0 THEN IntersectEmpty
        ELSE IntersectNew(point, normal, t, cube.material, uv[1], uv[2])

\* ----------------------------------------------------------------- SpecCube
\* One call of Cube::ray_intersect.  An origin coordinate is within MaxCoord
\* of zero, or GrazeCoord or FarCoord away along an axis the ray travels on.
MaxCoord == 2
FarCoord == 3000000
GrazeCoord == BigInverse
Directions == {<<x, y, z>> : x \in -1..1, y \in -1..1, z \in -1..1}
NearCoords == -MaxCoord..MaxCoord
Coords == NearCoords \cup {-FarCoord, -GrazeCoord, GrazeCoord, FarCoord}
Origins == {o \in Coords \X Coords \X Coords : TRUE}
CubeMaterial ==
    [diffuse |-> <<1, 1, 1>>, albedo |-> <<9, 1, 0, 0>>, specular |-> 10,
     refractive_index |-> <<1, 1>>, texture_id |-> NoId, normal_map_id |-> NoId]
TestCubes == {[center |-> c, size |-> sz, material |-> CubeMaterial] :
                 c \in {<<0, 0, 0>>, <<1, 0, -1>>}, sz \in {2, 4}}

\* the products of ray_intersect are exact
ExactInput(o, d) == \A a \in 1..3 : d[a] = 0 => o[a] \in NearCoords

LoopIdle ==
    /\ pc = "idle"
    /\ camera = CameraNew([yaw |-> 0, pitch |-> 0, radius |-> 1])
    /\ framebuffer = FramebufferNew(1, 1)
    /\ samples_per_frame = 1
    /\ current_sample = 0
    /\ render_complete = FALSE
    /\ frames_since_camera_change = 0
    /\ use_progressive = FALSE
    /\ current_lod = 4
    /\ target_lod = 1
    /\ camera_was_changed = FALSE
    /\ pass = NoPass
    /\ hist = InitHist

InitCube ==
    /\ LoopIdle
    /\ \E c \in TestCubes, o \in Origins, d \in Directions :
          /\ ExactInput(o, d)
          /\ probe = [fn |-> "ray_intersect", done |-> FALSE, cube |-> c,
                      ray_origin |-> o, ray_direction |-> d, result |-> IntersectEmpty]

CallRayIntersect ==
    /\ probe.fn = "ray_intersect" /\ ~probe.done
    /\ probe' = [probe EXCEPT !.done = TRUE,
                              !.result = RayIntersect(probe.cube, probe.ray_origin, probe.ray_direction)]
    /\ UNCHANGED loopVars

NextCube == CallRayIntersect

SpecCube == InitCube /\ [][NextCube]_vars

\* ----------------------------------------------------------------- cast_ray
\* In SpecRay the unit of length is ORIGIN_BIAS and the rays run along the
\* axes, so reflected and refracted directions are again unit axis vectors.
OriginBias == 1

\* v / |v| for a vector along one axis
Normalized(v) ==
    LET len == Abs(v[1]) + Abs(v[2]) + Abs(v[3])
    IN  <<v[1] \div len, v[2] \div len, v[3] \div len>>

OffsetOrigin(intersect, direction) ==
    LET offset == VScale(intersect.normal, OriginBias)
    IN  IF Dot(direction, intersect.normal) < 0
        THEN VSub(intersect.point, offset)
        ELSE VAdd(intersect.point, offset)

\* I - 3 (I.N) N
Reflect_Tripled(incident, normal) == VSub(incident, VScale(normal, 3 * Dot(incident, normal)))

Reflect(incident, normal) == VSub(incident, VScale(normal, 2 * Dot(incident, normal)))

\* refractive_index is the fraction <<p, q>>; the result is
\* [some |-> FALSE] for None and [some |-> TRUE, dir |-> d] for Some(d).
\* With eta = en/ed the discriminant is k = kn / ed^2, kn = ed^2 - en^2 (1 - cosi^2).
Refract(incident, normal, refractive_index) ==
    LET dotin == Dot(incident, normal)
        cos0 == Min(Max(dotin, -1), 1)
        swap == cos0 > 0
        cosi == IF swap THEN cos0 ELSE -cos0
        en == IF swap THEN refractive_index[1] ELSE refractive_index[2]
        ed == IF swap THEN refractive_index[2] ELSE refractive_index[1]
        n == IF swap THEN VNeg(normal) ELSE normal
        kn == ed * ed - en * en * (1 - cosi * cosi)
        root == CHOOSE r \in 0..Abs(ed) : r * r = kn
        num == VAdd(VScale(incident, en), VScale(n, en * cosi - root))
    IN  IF kn < 0 THEN [some |-> FALSE, dir |-> VZero]
        ELSE [some |-> TRUE, dir |-> <<num[1] \div ed, num[2] \div ed, num[3] \div ed>>]

SkyColor(skybox, ray_direction) == <<"sky", skybox, ray_direction>>
ZeroColor == <<"zero">>

\* the scan with i.distance <= zbuffer: the last of several equal hits wins
RECURSIVE NearestHit_LastOnTie(_, _, _, _, _)
NearestHit_LastOnTie(objects, k, ray_origin, ray_direction, best) ==
    IF k > Len(objects) THEN best.intersect
    ELSE LET i == RayIntersect(objects[k], ray_origin, ray_direction)
         IN  NearestHit_LastOnTie(objects, k + 1, ray_origin, ray_direction,
                        IF i.is_intersecting /\ (best.inf \/ i.distance <= best.zbuffer)
                        THEN [intersect |-> i, inf |-> FALSE, zbuffer |-> i.distance]
                        ELSE best)

\* the linear scan of cast_ray: best is [intersect, inf, zbuffer]
RECURSIVE NearestHit(_, _, _, _, _)
NearestHit(objects, k, ray_origin, ray_direction, best) ==
    IF k > Len(objects) THEN best.intersect
    ELSE LET i == RayIntersect(objects[k], ray_origin, ray_direction)
         IN  NearestHit(objects, k + 1, ray_origin, ray_direction,
                        IF i.is_intersecting /\ (best.inf \/ i.distance < best.zbuffer)
                        THEN [intersect |-> i, inf |-> FALSE, zbuffer |-> i.distance]
                        ELSE best)

\* depth > 4 instead of depth > 3
DepthExceeded_Late(depth) == depth > 4

DepthExceeded(depth) == depth > 3

NoRay == [color |-> ZeroColor, calls |-> 0, tests |-> 0, max_depth |-> 0,
          cast |-> <<>>, secondary |-> <<>>]

\* The result is the colour term, the number of cast_ray invocations, the
\* number of ray_intersect calls of the nearest-hit scans and the largest depth
\* argument; secondary lists the rays this invocation cast itself, and cast is
\* the entry its caller made for it.
RECURSIVE CastRay(_, _, _, _, _, _)

\* a secondary ray leaving the hit point: offset_origin, then cast_ray at depth + 1
SecondaryRay(term, intersect, direction, objects, light, skybox, depth) ==
    [CastRay(OffsetOrigin(intersect, direction), direction, objects, light, skybox, depth + 1)
        EXCEPT !.cast = <<[term |-> term, origin |-> OffsetOrigin(intersect, direction),
                           direction |-> direction, depth |-> depth + 1]>>]

ReflectDir(intersect, ray_direction) == Normalized(Reflect(ray_direction, intersect.normal))

\* the reflection ray is cast whatever the material
ReflectedRay_Always(intersect, ray_direction, objects, light, skybox, depth) ==
    SecondaryRay("reflect", intersect, ReflectDir(intersect, ray_direction),
                 objects, light, skybox, depth)

\* lines 186-193
ReflectedRay(intersect, ray_direction, objects, light, skybox, depth) ==
    IF intersect.material.albedo[3] > 0
    THEN SecondaryRay("reflect", intersect, ReflectDir(intersect, ray_direction),
                      objects, light, skybox, depth)
    ELSE NoRay

\* the refracted direction, or the reflected one on total internal reflection
RefractDir(intersect, ray_direction, r) ==
    IF r.some THEN r.dir ELSE ReflectDir(intersect, ray_direction)

\* the transmit term is dropped when refract returns None
RefractedRay_SkipOnNone(intersect, ray_direction, objects, light, skybox, depth) ==
    IF intersect.material.albedo[4] > 0
          /\ Refract(ray_direction, intersect.normal, intersect.material.refractive_index).some
    THEN SecondaryRay("transmit", intersect,
                      RefractDir(intersect, ray_direction,
                                 Refract(ray_direction, intersect.normal,
                                         intersect.material.refractive_index)),
                      objects, light, skybox, depth)
    ELSE NoRay

\* lines 195-207
RefractedRay(intersect, ray_direction, objects, light, skybox, depth) ==
    IF intersect.material.albedo[4] > 0
    THEN SecondaryRay("transmit", intersect,
                      RefractDir(intersect, ray_direction,
                                 Refract(ray_direction, intersect.normal,
                                         intersect.material.refractive_index)),
                      objects, light, skybox, depth)
    ELSE NoRay

\* The Phong term stands for lines 136-184 (light, shadow, texture).
PhongColor(intersect, light) ==
    <<"phong", intersect.point, intersect.normal, intersect.material.albedo, light>>

\* line 209: phong * (1 - reflectivity - transparency) + reflect * reflectivity
\* + refract * transparency
MixColor(intersect, light, reflected, refracted, tests, depth) ==
    [color |-> <<"mix", PhongColor(intersect, light), intersect.material.albedo[3],
                 reflected.color, intersect.material.albedo[4], refracted.color>>,
     calls |-> 1 + reflected.calls + refracted.calls,
     tests |-> tests + reflected.tests + refracted.tests,
     max_depth |-> Max3(depth, reflected.max_depth, refracted.max_depth),
     cast |-> <<>>, secondary |-> reflected.cast \o refracted.cast]

\* lines 136-209, after the nearest-hit scan
Shade(intersect, ray_direction, objects, light, skybox, depth) ==
    IF ~intersect.is_intersecting
    THEN [color |-> SkyColor(skybox, ray_direction), calls |-> 1,
          tests |-> Len(objects), max_depth |-> depth, cast |-> <<>>, secondary |-> <<>>]
    ELSE MixColor(intersect, light,
                  ReflectedRay(intersect, ray_direction, objects, light, skybox, depth),
                  RefractedRay(intersect, ray_direction, objects, light, skybox, depth),
                  Len(objects), depth)

CastRay(ray_origin, ray_direction, objects, light, skybox, depth) ==
    IF DepthExceeded(depth)
    THEN [color |-> SkyColor(skybox, ray_direction), calls |-> 1, tests |-> 0, max_depth |-> depth,
          cast |-> <<>>, secondary |-> <<>>]
    ELSE Shade(NearestHit(objects, 1, ray_origin, ray_direction,
                          [intersect |-> IntersectEmpty, inf |-> TRUE, zbuffer |-> 0]),
               ray_direction, objects, light, skybox, depth)

\* ------------------------------------------------------------------ SpecRay
MaxDepth == 5
MaxObjects == 2
Matte == [CubeMaterial EXCEPT !.albedo = <<9, 1, 0, 0>>]
Mirror == [CubeMaterial EXCEPT !.albedo = <<0, 10, 8, 0>>]
Glass == [CubeMaterial EXCEPT !.albedo = <<0, 5, 1, 8>>]
ThinGlass == [CubeMaterial EXCEPT !.albedo = <<0, 5, 0, 8>>, !.refractive_index = <<1, 2>>]
RayCubes == {[center |-> c, size |-> 4, material |-> m] :
                c \in {<<0, 0, 0>>, <<0, 0, 8>>}, m \in {Matte, Mirror, Glass, ThinGlass}}
Scenes == UNION {[1..n -> RayCubes] : n \in 0..MaxObjects}
AxisDirections == {d \in Directions : Dot(d, d) = 1}
RayOrigins == {<<0, 0, 4>>, <<1, 0, 4>>, <<0, 0, 12>>, <<0, 1, 0>>, <<4, 0, 0>>,
               <<-3, 0, GrazeCoord>>}
TestLight == [position |-> <<5, 10, 5>>, intensity |-> 2]
Skyboxes == {"sunset", "night"}


\* the arguments of single calls of reflect and refract
MaxIncident == 2
Incidents == {<<x, y, z>> : x \in (-MaxIncident)..MaxIncident, y \in (-MaxIncident)..MaxIncident,
                            z \in (-MaxIncident)..MaxIncident}
RefractiveIndices == {<<1, 2>>, <<1, 1>>}
NoDirection == [some |-> FALSE, dir |-> VZero]

\* a coordinate of GrazeCoord only along the axis the ray travels on
ExactRay(o, d) == \A a \in 1..3 : d[a] = 0 => Abs(o[a]) < GrazeCoord

InitCastRay ==
    \E sc \in Scenes, o \in RayOrigins, d \in AxisDirections, depth \in 0..MaxDepth, sky \in Skyboxes :
        /\ ExactRay(o, d)
        /\ probe = [fn |-> "cast_ray", done |-> FALSE, ray_origin |-> o, ray_direction |-> d,
                    objects |-> sc, skybox |-> sky, depth |-> depth, result |-> NoRay]

InitReflect ==
    \E i \in Incidents, n \in Directions :
        probe = [fn |-> "reflect", done |-> FALSE, incident |-> i, normal |-> n,
                 result |-> VZero, twice |-> VZero]

InitRefract ==
    \E i \in AxisDirections, n \in AxisDirections, idx \in RefractiveIndices :
        probe = [fn |-> "refract", done |-> FALSE, incident |-> i, normal |-> n,
                 refractive_index |-> idx, result |-> NoDirection]

InitRay ==
    /\ LoopIdle
    /\ (InitCastRay \/ InitReflect \/ InitRefract)

CallCastRay ==
    /\ probe.fn = "cast_ray" /\ ~probe.done
    /\ probe' = [probe EXCEPT !.done = TRUE,
                              !.result = CastRay(probe.ray_origin, probe.ray_direction, probe.objects,
                                                 TestLight, probe.skybox, probe.depth)]
    /\ UNCHANGED loopVars

\* reflect(I, N), and reflect applied to its own result
CallReflect ==
    /\ probe.fn = "reflect" /\ ~probe.done
    /\ probe' = [probe EXCEPT !.done = TRUE,
                              !.result = Reflect(probe.incident, probe.normal),
                              !.twice = Reflect(Reflect(probe.incident, probe.normal), probe.normal)]
    /\ UNCHANGED loopVars

CallRefract ==
    /\ probe.fn = "refract" /\ ~probe.done
    /\ probe' = [probe EXCEPT !.done = TRUE,
                              !.result = Refract(probe.incident, probe.normal, probe.refractive_index)]
    /\ UNCHANGED loopVars

NextRay == CallCastRay \/ CallReflect \/ CallRefract

SpecRay == InitRay /\ [][NextRay]_vars

\* --------------------------------------------------- camera, Cartesian
\* The camera of camera.rs with exact vectors.  The eye lies level with the
\* center on one of the horizontal axes, yaw deltas are quarter turns, the
\* pitch delta is 0 and zoom amounts are whole units, so every vector stays
\* on an axis and normalized(), cos and sin are exact.  raylib's normalized()
\* returns the zero vector for the zero vector.  nan marks a camera whose eye
\* and basis are NaN.
Cross(a, b) ==
    <<a[2] * b[3] - a[3] * b[2], a[3] * b[1] - a[1] * b[3], a[1] * b[2] - a[2] * b[1]>>

\* |v| for a vector along one axis
AxisLength(v) == Abs(v[1]) + Abs(v[2]) + Abs(v[3])

NormalizedOrZero(v) == IF v = VZero THEN VZero ELSE Normalized(v)

VecUpdateBasisVectors(cam) ==
    LET forward == NormalizedOrZero(VSub(cam.center, cam.eye))
        right == NormalizedOrZero(Cross(forward, cam.up))
        up == Cross(right, forward)
    IN  IF cam.nan THEN [cam EXCEPT !.changed = TRUE]
        ELSE [cam EXCEPT !.forward = forward, !.right = right, !.up = up, !.changed = TRUE]

VecCameraNew(eye, center, up) ==
    VecUpdateBasisVectors([eye |-> eye, center |-> center, up |-> up, forward |-> VZero,
                           right |-> VZero, changed |-> TRUE, nan |-> FALSE])

\* cos and sin of k quarter turns
QuarterCos(k) == CASE k % 4 = 0 -> 1 [] k % 4 = 2 -> -1 [] OTHER -> 0
QuarterSin(k) == QuarterCos(k - 1)

\* atan2(z, x) in quarter turns for a point on a horizontal axis; atan2(0, 0) = 0
Atan2Quarter(z, x) ==
    IF x > 0 THEN 0 ELSE IF z > 0 THEN 1 ELSE IF x < 0 THEN 2 ELSE IF z < 0 THEN 3 ELSE 0

\* orbit(yaw, 0.0) with yaw a number of quarter turns.  With radius = 0 the
\* pitch is asin(0/0) = NaN and the new eye is NaN.
VecOrbit(cam, yaw) ==
    LET relative_pos == VSub(cam.eye, cam.center)
        radius == AxisLength(relative_pos)
        new_yaw == Atan2Quarter(relative_pos[3], relative_pos[1]) + yaw
        new_relative_pos == <<radius * QuarterCos(new_yaw), 0, radius * QuarterSin(new_yaw)>>
    IN  IF cam.nan \/ radius = 0 THEN [cam EXCEPT !.nan = TRUE, !.changed = TRUE]
        ELSE VecUpdateBasisVectors([cam EXCEPT !.eye = VAdd(cam.center, new_relative_pos)])

VecZoom(cam, amount) ==
    LET forward == NormalizedOrZero(VSub(cam.center, cam.eye))
    IN  IF cam.nan THEN [cam EXCEPT !.changed = TRUE]
        ELSE VecUpdateBasisVectors([cam EXCEPT !.eye = VAdd(cam.eye, VScale(forward, amount))])

\* --------------------------------------------------------------- SpecCamera
\* Camera::new followed by any sequence of orbit, zoom and is_changed calls.
MaxEyeDistance == 3
MaxZoom == 3
WorldUp == <<0, 1, 0>>
CameraCenters == {<<0, 0, 0>>, <<1, 0, 0>>, <<0, 2, -1>>}
HorizontalAxes == {<<1, 0, 0>>, <<-1, 0, 0>>, <<0, 0, 1>>, <<0, 0, -1>>}

\* the scheduler's variables while only the camera is exercised
SchedulerIdle ==
    /\ pc = "idle"
    /\ framebuffer = FramebufferNew(1, 1)
    /\ samples_per_frame = 1
    /\ current_sample = 0
    /\ render_complete = FALSE
    /\ frames_since_camera_change = 0
    /\ use_progressive = FALSE
    /\ current_lod = 4
    /\ target_lod = 1
    /\ pass = NoPass
    /\ hist = InitHist

cameraFrame == <<pc, framebuffer, samples_per_frame, current_sample, render_complete,
                 frames_since_camera_change, use_progressive, current_lod, target_lod,
                 pass, hist>>

InitCamera ==
    /\ SchedulerIdle
    /\ camera_was_changed = FALSE
    /\ probe = [fn |-> "new"]
    /\ \E center \in CameraCenters, h \in HorizontalAxes, r \in 1..MaxEyeDistance :
          camera = VecCameraNew(VAdd(center, VScale(h, r)), center, WorldUp)

CallOrbit ==
    /\ probe.fn \in {"new", "orbit", "zoom", "is_changed"}
    /\ \E yaw \in 0..3 :
          /\ camera' = VecOrbit(camera, yaw)
          /\ probe' = [fn |-> "orbit"]
    /\ UNCHANGED <<cameraFrame, camera_was_changed>>

\* zoom(amount); the eye is kept within MaxEyeDistance of the center
CallZoom ==
    /\ probe.fn \in {"new", "orbit", "zoom", "is_changed"}
    /\ \E amount \in (-MaxZoom)..MaxZoom :
          /\ AxisLength(VSub(VecZoom(camera, amount).eye, camera.center)) <= MaxEyeDistance
          /\ camera' = VecZoom(camera, amount)
          /\ probe' = [fn |-> "zoom"]
    /\ UNCHANGED <<cameraFrame, camera_was_changed>>

CallIsChanged ==
    /\ probe.fn \in {"new", "orbit", "zoom", "is_changed"}
    /\ camera' = IsChanged(camera).cam
    /\ camera_was_changed' = IsChanged(camera).ret
    /\ probe' = [fn |-> "is_changed"]
    /\ UNCHANGED cameraFrame

NextCamera == CallOrbit \/ CallZoom \/ CallIsChanged

SpecCamera == InitCamera /\ [][NextCamera]_vars

\* --------------------------------------------------- camera, spherical
\* orbit() on angles measured in hundredths of a radian.  The eye is named by
\* the spherical coordinates orbit() reads from it: radius = |eye - center|,
\* yaw = atan2(z, x) in (-pi, pi], pitch = asin(y / radius) in [-pi/2, pi/2].
CentiPi == 314
PitchLimit == 150
RotationSpeed == 3
HalfPi == CentiPi \div 2
TwoPi == 2 * CentiPi

\* asin(sin(p))
AsinSin(p) ==
    LET q == ((p + HalfPi) % TwoPi) - HalfPi
    IN  IF q <= HalfPi THEN q ELSE CentiPi - q

\* cos(p) < 0
CosNegative(p) == ((p + HalfPi) % TwoPi) - HalfPi > HalfPi

\* an angle brought into (-pi, pi]
Atan2Range(y) == ((y + CentiPi - 1) % TwoPi) - (CentiPi - 1)

\* the eye at radius * (cos p cos y, sin p, cos p sin y) relative to the center,
\* lines 75-83
EyeAt(radius, yaw, pitch) ==
    [yaw    |-> Atan2Range(IF CosNegative(pitch) THEN yaw + CentiPi ELSE yaw),
     pitch  |-> AsinSin(pitch),
     radius |-> radius]

\* orbit() without the clamp of line 71
ClampPitch_None(p) == p

ClampPitch(p) == Clamp(p, -PitchLimit, PitchLimit)

OrbitAngles(cam, yaw, pitch) ==
    LET radius == cam.eye.radius
        current_yaw == cam.eye.yaw
        current_pitch == cam.eye.pitch
        new_yaw == current_yaw + yaw
        new_pitch == ClampPitch(current_pitch + pitch)
    IN  UpdateBasisVectors([cam EXCEPT !.eye = EyeAt(radius, new_yaw, new_pitch)])

\* ---------------------------------------------------------------- SpecOrbit
\* Camera::new with the eye level with the center, then orbit calls.
MaxPitchDelta == 200
OrbitRadii == {1, 15}
YawDeltas == {0, HalfPi}
PitchDeltas == {-MaxPitchDelta, -RotationSpeed, 0, RotationSpeed, MaxPitchDelta}

InitOrbit ==
    /\ SchedulerIdle
    /\ camera_was_changed = FALSE
    /\ probe = [fn |-> "new"]
    /\ \E r \in OrbitRadii, k \in 0..3 :
          camera = UpdateBasisVectors([eye |-> EyeAt(r, k * HalfPi, 0), center |-> VZero,
                                       changed |-> TRUE])

CallOrbitAngles ==
    /\ probe.fn \in {"new", "orbit_angles"}
    /\ \E yaw \in YawDeltas, pitch \in PitchDeltas :
          /\ camera' = OrbitAngles(camera, yaw, pitch)
          /\ probe' = [fn |-> "orbit_angles", yaw |-> yaw, pitch |-> pitch, before |-> camera]
    /\ UNCHANGED <<cameraFrame, camera_was_changed>>

NextOrbit == CallOrbitAngles

SpecOrbit == InitOrbit /\ [][NextOrbit]_vars

\* =================================================================== claims
TotalPixels == framebuffer.width * framebuffer.height
Raster(w, h) == [i \in 1..(w * h) |-> <<(i - 1) % w, (i - 1) \div w>>]
Cleared == \E i \in 1..Len(framebuffer.ops) : framebuffer.ops[i][1] = "clear"
AfterRender == pc = "input" /\ pass.phase # "none"

\* C1: in a frame whose camera-change flag was read as true, the reset step
\* leaves frames_since_camera_change = 0, current_lod = 4, render_complete
\* false and progressive mode off, whatever these were before.
C1_EpisodeReset ==
    (pc = "lod" /\ camera_was_changed) =>
        /\ frames_since_camera_change = 0
        /\ current_lod = 4
        /\ ~render_complete
        /\ ~use_progressive

\* a reset that interrupted a completed progressive episode at LOD 1
C1_Witness ==
    /\ pc = "lod" /\ camera_was_changed
    /\ hist.pre.render_complete /\ hist.pre.use_progressive /\ hist.pre.lod = 1
    /\ current_lod = 4

\* C2: a progressive sweep started at cursor 0 completes at exactly the
\* ceil(W*H/S)-th call of render_progressive, every call resumes at the cursor
\* the previous one left, and the pixels written over the sweep are every
\* pixel once, in raster order.
C2_ProgressiveSweep ==
    (AfterRender /\ pass.fn = "render_progressive") =>
        /\ pass.start = (hist.sweep_calls - 1) * samples_per_frame
        /\ current_sample = Min(hist.sweep_calls * samples_per_frame, TotalPixels)
        /\ hist.sweep_writes = SubSeq(Raster(framebuffer.width, framebuffer.height), 1, current_sample)
        /\ pass.done <=> (hist.sweep_calls = CeilDiv(TotalPixels, samples_per_frame))
        /\ pass.done = render_complete
        /\ pass.done => hist.sweep_writes = Raster(framebuffer.width, framebuffer.height)

\* a sweep of several chunks, the last one shorter than samples_per_frame
C2_Witness ==
    /\ AfterRender /\ pass.fn = "render_progressive" /\ pass.done
    /\ hist.sweep_calls >= 2
    /\ TotalPixels % samples_per_frame # 0
    /\ Len(hist.sweep_writes) = TotalPixels

\* C3 as stated: the phase by the number of frames elapsed since the camera
\* change (0 in the frame that detects it): 0..8 adaptive, 9..20 full
\* resolution, 21 and above progressive.
C3_PhaseByElapsedFrames ==
    AfterRender =>
        /\ hist.elapsed \in 0..8 => pass.phase = "adaptive"
        /\ hist.elapsed \in 9..20 => pass.phase = "full"
        /\ hist.elapsed >= 21 => pass.phase = "progressive"

\* C3 amended: the phase is selected by frames_since_camera_change after the
\* increment of the frame (1 in the frame that detects the change): 1..8
\* adaptive at current_lod, 9..20 full resolution, 21 and above progressive;
\* exactly one phase per frame.
C3_PhaseByCounter ==
    AfterRender =>
        /\ frames_since_camera_change = hist.elapsed + 1
        /\ pass.phase \in {"adaptive", "full", "progressive"}
        /\ (pass.phase = "adaptive") <=> (frames_since_camera_change \in 1..8)
        /\ (pass.phase = "full") <=> (frames_since_camera_change \in 9..20)
        /\ (pass.phase = "progressive") <=> (frames_since_camera_change >= 21)
        /\ pass.phase = "adaptive" => (pass.fn = "render_adaptive" /\ pass.lod = current_lod)
        /\ pass.fn = "render" => pass.phase = "full"
        /\ pass.fn = "render_progressive" => pass.phase = "progressive"

\* the ninth frame of an episode (eight frames elapsed) runs the full pass
C3_Witness ==
    AfterRender /\ hist.elapsed = 8 /\ frames_since_camera_change = 9 /\ pass.fn = "render"

\* C4: target_lod is always 1 and current_lod stays in 1..4, never below
\* target_lod; apart from the episode reset, a step never increases
\* current_lod, lowers it by at most 1, and lowers it only when the frame
\* counter is even and current_lod > target_lod.
C4_LodMonotone ==
    /\ [](target_lod = 1 /\ current_lod \in 1..4 /\ current_lod >= target_lod)
    /\ [][~(pc = "reset" /\ camera_was_changed) =>
            /\ current_lod' <= current_lod
            /\ current_lod - current_lod' <= 1
            /\ current_lod' < current_lod =>
                  (pc = "lod" /\ frames_since_camera_change % 2 = 0 /\ current_lod > target_lod)]_vars

\* the decrement to LOD 2 in the third frame of an episode
C4_Witness ==
    /\ pc = "render" /\ ~camera_was_changed
    /\ hist.elapsed = 2 /\ current_lod = 2

\* C5 as stated: the framebuffer is cleared only by an adaptive pass with
\* lod >= 4 and with the progressive cursor at 0; the full-resolution pass and
\* every progressive chunk paint over the buffer.
C5_ClearOnlyAdaptive ==
    (AfterRender /\ Cleared) =>
        (pass.fn = "render_adaptive" /\ pass.lod >= 4 /\ current_sample = 0)

\* C5 amended: a pass clears the framebuffer exactly when it is an adaptive
\* pass with lod >= 4, the full-resolution pass, or a progressive chunk that
\* starts at cursor 0, and then once, before its first write; an adaptive pass
\* with lod < 4 and a progressive chunk with cursor > 0 paint over the buffer.
C5_ClearPolicy ==
    AfterRender =>
        /\ Cleared <=> \/ (pass.fn = "render_adaptive" /\ pass.lod >= 4)
                       \/ pass.fn = "render"
                       \/ (pass.fn = "render_progressive" /\ pass.start = 0)
        /\ \A i \in 1..Len(framebuffer.ops) : framebuffer.ops[i][1] = "clear" => i = 1

\* the full-resolution pass has cleared the buffer and then written it
C5_Witness ==
    AfterRender /\ pass.fn = "render" /\ Cleared /\ Len(framebuffer.ops) > 1

\* C6 as stated: once the full-resolution pass has run in an episode, no pass
\* renders anything until a camera change resets the episode.
C6_NothingAfterFullPass ==
    (AfterRender /\ hist.full_runs >= 1) => pass.fn \in {"render", "none"}

\* C6 amended: in frames 9..20 of an episode the full-resolution pass runs
\* exactly once, in frame 9, writes every pixel once and sets render_complete;
\* frames 10..20 render nothing; frame 21 starts a progressive sweep.
C6_FullPassOnce ==
    AfterRender =>
        /\ frames_since_camera_change \in 9..20 =>
              /\ render_complete
              /\ hist.full_runs = 1
              /\ (pass.fn = "render") <=> (frames_since_camera_change = 9)
              /\ frames_since_camera_change > 9 => (pass.fn = "none" /\ framebuffer.ops = <<>>)
        /\ pass.fn = "render" =>
              /\ SetsOf(framebuffer.ops) = Raster(framebuffer.width, framebuffer.height)
              /\ Len(framebuffer.ops) = TotalPixels + 1
        /\ frames_since_camera_change = 21 => (pass.fn = "render_progressive" /\ pass.start = 0)
        /\ hist.full_runs <= 1

\* an idle frame of the full phase
C6_Witness ==
    /\ AfterRender /\ frames_since_camera_change = 15
    /\ pass.fn = "none" /\ render_complete /\ hist.full_runs = 1

\* C7: is_changed() returns true exactly when the camera was constructed or
\* mutated (orbit, zoom) since the previous is_changed() call.
C7_IsChanged ==
    [][pc = "input" => (camera_was_changed' = hist.mutated)]_vars

\* is_changed() returned false (no mutation in the frame before) and the
\* camera was mutated after that call
C7_Witness ==
    pc = "reset" /\ ~camera_was_changed /\ camera.changed /\ hist.mutated

\* C8: a camera change detected during an incomplete progressive sweep leaves
\* progressive mode; no progressive chunk is rendered before frame 21 of the
\* new episode, and the chunks of the new episode start again at cursor 0.
C8_SweepDiscarded ==
    /\ (pc = "lod" /\ camera_was_changed /\ hist.pre.use_progressive /\ ~hist.pre.render_complete) =>
          (~use_progressive /\ ~render_complete)
    /\ (AfterRender /\ frames_since_camera_change <= 20) =>
          (pass.fn # "render_progressive" /\ hist.chunks = 0)
    /\ (AfterRender /\ pass.fn = "render_progressive") =>
          /\ pass.start = (hist.chunks - 1) * samples_per_frame
          /\ hist.chunks = 1 => pass.start = 0

\* the first chunk after a discarded sweep, with more chunks to come
C8_Witness ==
    /\ AfterRender /\ hist.discarded
    /\ pass.fn = "render_progressive" /\ hist.chunks = 1 /\ pass.start = 0
    /\ ~render_complete

\* C10 as stated: a ray from outside the cube along a unit axis direction that
\* passes through the interior of a face hits at t = distance to that near
\* face, at the point of the face straight ahead, with the outward normal of
\* the face (the direction reversed).
C10_AxisRayHitsNearFace ==
    (probe.fn = "ray_intersect" /\ probe.done) =>
        \A a \in 1..3 :
            LET o == probe.ray_origin
                d == probe.ray_direction
                c == probe.cube
                h == c.size \div 2
                face == c.center[a] - d[a] * h
                dist == (face - o[a]) * d[a]
            IN  (/\ Abs(d[a]) = 1
                 /\ \A b \in (1..3) \ {a} : d[b] = 0 /\ Abs(o[b] - c.center[b]) < h
                 /\ dist > 0)
                => /\ probe.result.is_intersecting
                   /\ probe.result.distance = dist
                   /\ probe.result.point = [o EXCEPT ![a] = face]
                   /\ probe.result.normal = VNeg(d)

\* C9: cast_ray called with depth > 3 returns the sky colour of its direction
\* at once: one invocation, no ray_intersect call, no recursion, for every
\* scene.
C9_DepthLimit ==
    (probe.fn = "cast_ray" /\ probe.done /\ probe.depth > 3) =>
        /\ probe.result.color = SkyColor(probe.skybox, probe.ray_direction)
        /\ probe.result.calls = 1
        /\ probe.result.tests = 0
        /\ probe.result.max_depth = probe.depth

\* a call at depth 4 whose ray points at a mirror cube
C9_Witness ==
    /\ probe.fn = "cast_ray" /\ probe.done /\ probe.depth = 4
    /\ Len(probe.objects) = 2
    /\ RayIntersect(probe.objects[1], probe.ray_origin, probe.ray_direction).is_intersecting
    /\ probe.objects[1].material = Mirror
    /\ probe.result.color = SkyColor(probe.skybox, probe.ray_direction)

\* ------------------------------------------------- Cube::ray_intersect
CubeCalled == probe.fn = "ray_intersect" /\ probe.done

HalfVec(cube) == <<cube.size \div 2, cube.size \div 2, cube.size \div 2>>
BoxMin(cube) == VSub(cube.center, HalfVec(cube))
BoxMax(cube) == VAdd(cube.center, HalfVec(cube))

\* the slab parameters of one axis, lines 57-62
SlabLo(cube, o, d, a) ==
    Min((BoxMin(cube)[a] - o[a]) * InvDir(d[a]), (BoxMax(cube)[a] - o[a]) * InvDir(d[a]))
SlabHi(cube, o, d, a) ==
    Max((BoxMin(cube)[a] - o[a]) * InvDir(d[a]), (BoxMax(cube)[a] - o[a]) * InvDir(d[a]))

\* lines 64-65 and 77
SlabTmin(cube, o, d) == Max3(SlabLo(cube, o, d, 1), SlabLo(cube, o, d, 2), SlabLo(cube, o, d, 3))
SlabTmax(cube, o, d) == Min3(SlabHi(cube, o, d, 1), SlabHi(cube, o, d, 2), SlabHi(cube, o, d, 3))
ChosenT(cube, o, d) ==
    IF SlabTmin(cube, o, d) > 0 THEN SlabTmin(cube, o, d) ELSE SlabTmax(cube, o, d)

AxisParallel(d) == Dot(d, d) = 1
OutsideSlab(cube, o, a) == o[a] < BoxMin(cube)[a] \/ o[a] > BoxMax(cube)[a]
StrictlyInside(cube, o) == \A a \in 1..3 : BoxMin(cube)[a] < o[a] /\ o[a] < BoxMax(cube)[a]

\* the ray is parallel to an axis and its origin is outside the slab of a
\* perpendicular axis
RunsBeside(cube, o, d) ==
    /\ AxisParallel(d)
    /\ \E a \in 1..3 : d[a] = 0 /\ OutsideSlab(cube, o, a)

\* C11: a ray parallel to an axis that runs beside the cube (origin outside
\* the slab of a perpendicular axis) reports no intersection, on either side
\* and for either sign of the direction.
C11_ParallelOutsideMisses ==
    (CubeCalled /\ RunsBeside(probe.cube, probe.ray_origin, probe.ray_direction))
        => ~probe.result.is_intersecting

\* C12: ray_intersect reports a hit exactly when tmax >= 0, tmin <= tmax and
\* the chosen t (tmin if tmin > 0, else tmax) is > 0; the distance of a hit is
\* that t, so it is > 0, and an origin strictly inside the box hits at tmax.
C12_HitCondition ==
    CubeCalled =>
        LET c == probe.cube
            o == probe.ray_origin
            d == probe.ray_direction
            tmin == SlabTmin(c, o, d)
            tmax == SlabTmax(c, o, d)
            t == ChosenT(c, o, d)
        IN  /\ probe.result.is_intersecting <=> (tmax >= 0 /\ tmin <= tmax /\ t > 0)
            /\ probe.result.is_intersecting =>
                  /\ probe.result.distance = t
                  /\ probe.result.distance > 0
            /\ StrictlyInside(c, o) =>
                  /\ probe.result.is_intersecting
                  /\ probe.result.distance = tmax

\* an origin strictly inside the box, hit at the exit parameter
C12_Witness ==
    /\ CubeCalled
    /\ StrictlyInside(probe.cube, probe.ray_origin)
    /\ AxisParallel(probe.ray_direction)
    /\ probe.result.is_intersecting
    /\ probe.result.distance = SlabTmax(probe.cube, probe.ray_origin, probe.ray_direction)
    /\ SlabTmin(probe.cube, probe.ray_origin, probe.ray_direction) < 0

\* the axes on which |local| is largest
LargestAxes(local) == {a \in 1..3 : \A b \in 1..3 : Abs(local[a]) >= Abs(local[b])}
FirstOf(axes) == CHOOSE a \in axes : \A b \in axes : a <= b
LastOf(axes) == CHOOSE a \in axes : \A b \in axes : a >= b
AxisNormal(local, a) == [b \in 1..3 |-> IF b = a THEN Signum(local[a]) ELSE 0]
HitLocal == VSub(probe.result.point, probe.cube.center)

\* C13 as stated: the normal is the signed unit vector of the axis with the
\* largest |local| component, and on a tie the earlier axis in the order
\* x, y, z is taken.
C13_NormalTieFirstAxis ==
    (CubeCalled /\ probe.result.is_intersecting) =>
        probe.result.normal = AxisNormal(HitLocal, FirstOf(LargestAxes(HitLocal)))

\* C13: the normal of a hit is the signed unit vector of an axis with the
\* largest |local| component; on a tie the later axis in the order x, y, z is
\* taken (z over y over x); exactly one component is non-zero, +1 or -1, with
\* the sign of that local component.
C13_NormalLargestAxis ==
    (CubeCalled /\ probe.result.is_intersecting) =>
        LET n == probe.result.normal
            a == LastOf(LargestAxes(HitLocal))
        IN  /\ n = AxisNormal(HitLocal, a)
            /\ Cardinality({b \in 1..3 : n[b] # 0}) = 1
            /\ n[a] \in {-1, 1}
            /\ HitLocal[a] > 0 => n[a] = 1
            /\ HitLocal[a] < 0 => n[a] = -1

\* a hit on an edge of the cube: the x and y components of local tie
C13_Witness ==
    /\ CubeCalled /\ probe.result.is_intersecting
    /\ LargestAxes(HitLocal) = {1, 2}
    /\ probe.result.normal[2] # 0

\* C14: every rejection of ray_intersect returns the sentinel: flag false,
\* zero point and normal, distance 0, u = v = 0 and a material with four zero
\* albedo weights, no texture and no normal map.
C14_MissIsSentinel ==
    (CubeCalled /\ ~probe.result.is_intersecting) =>
        /\ probe.result.point = VZero
        /\ probe.result.normal = VZero
        /\ probe.result.distance = 0
        /\ probe.result.u[1] = 0 /\ probe.result.v[1] = 0
        /\ probe.result.material.albedo = <<0, 0, 0, 0>>
        /\ probe.result.material.texture_id = NoId
        /\ probe.result.material.normal_map_id = NoId

\* a rejection by tmin > tmax with the box in front of the origin
C14_Witness ==
    /\ CubeCalled /\ ~probe.result.is_intersecting
    /\ SlabTmax(probe.cube, probe.ray_origin, probe.ray_direction) >= 0
    /\ SlabTmin(probe.cube, probe.ray_origin, probe.ray_direction)
          > SlabTmax(probe.cube, probe.ray_origin, probe.ray_direction)

\* ------------------------------------------------------------------ Camera
CameraCalled == probe.fn \in {"new", "orbit", "zoom", "is_changed"}

\* forward, right and up have length 1 and are pairwise orthogonal
Orthonormal(cam) ==
    /\ ~cam.nan
    /\ Dot(cam.forward, cam.forward) = 1
    /\ Dot(cam.right, cam.right) = 1
    /\ Dot(cam.up, cam.up) = 1
    /\ Dot(cam.forward, cam.right) = 0
    /\ Dot(cam.forward, cam.up) = 0
    /\ Dot(cam.right, cam.up) = 0

\* C15: after Camera::new and after any sequence of orbit and zoom calls,
\* also with zoom amounts that bring the eye to or past the center, forward,
\* right and up are unit vectors and pairwise orthogonal.
C15_Orthonormal == CameraCalled => Orthonormal(camera)

\* C16: after any sequence of orbit calls the pitch of the eye relative to
\* the center is within [-1.5, 1.5] rad, whatever the pitch deltas; orbit
\* leaves the center and the distance of the eye from the center unchanged.
C16_PitchClamped ==
    probe.fn = "orbit_angles" =>
        /\ camera.eye.pitch >= -PitchLimit
        /\ camera.eye.pitch <= PitchLimit
        /\ camera.center = probe.before.center
        /\ camera.eye.radius = probe.before.eye.radius

\* an orbit whose pitch delta would pass the limit
C16_Witness ==
    /\ probe.fn = "orbit_angles"
    /\ probe.before.eye.pitch > 0
    /\ probe.before.eye.pitch < PitchLimit
    /\ probe.before.eye.pitch + probe.pitch > PitchLimit
    /\ camera.eye.pitch = PitchLimit

\* ------------------------------------------------------ reflect, refract
\* C17: reflect(I, N) = I - 2 (I.N) N for every input; for a unit axis normal
\* it negates the component of I along N and keeps the others, so
\* reflect((1,-1,0), (0,1,0)) = (1,1,0) and reflecting twice about the same
\* unit normal returns I.
C17_ReflectLaw ==
    (probe.fn = "reflect" /\ probe.done) =>
        LET I == probe.incident
            N == probe.normal
        IN  /\ \A a \in 1..3 : probe.result[a] = I[a] - 2 * Dot(I, N) * N[a]
            /\ AxisParallel(N) =>
                  /\ \A a \in 1..3 : probe.result[a] = IF N[a] # 0 THEN -I[a] ELSE I[a]
                  /\ probe.twice = I
            /\ (I = <<1, -1, 0>> /\ N = <<0, 1, 0>>) => probe.result = <<1, 1, 0>>

\* the example of the reflection law
C17_Witness ==
    /\ probe.fn = "reflect" /\ probe.done
    /\ probe.incident = <<1, -1, 0>> /\ probe.normal = <<0, 1, 0>>
    /\ probe.result = <<1, 1, 0>>
    /\ probe.twice = <<1, -1, 0>>

\* the sign of refract's discriminant k = 1 - eta^2 (1 - cosi^2), as the
\* numerator ed^2 - en^2 (1 - cosi^2) with eta = en / ed
DiscriminantSign(incident, normal, refractive_index) ==
    LET cos0 == Min(Max(Dot(incident, normal), -1), 1)
        en == IF cos0 > 0 THEN refractive_index[1] ELSE refractive_index[2]
        ed == IF cos0 > 0 THEN refractive_index[2] ELSE refractive_index[1]
    IN  ed * ed - en * en * (1 - cos0 * cos0)

CastRayCalled == probe.fn = "cast_ray" /\ probe.done

\* the hit the first invocation shades
FirstHit ==
    NearestHit(probe.objects, 1, probe.ray_origin, probe.ray_direction,
               [intersect |-> IntersectEmpty, inf |-> TRUE, zbuffer |-> 0])

\* the entries of the rays the first invocation cast for one term
CastFor(term) == SelectSeq(probe.result.secondary, LAMBDA e : e.term = term)

\* C18: refract returns none exactly when its discriminant is negative; when
\* the hit material has albedo[3] > 0, cast_ray casts exactly one secondary ray
\* for the transmit term, at depth + 1 from the offset origin: along the
\* refracted direction when refract returns one, along the mirror-reflected
\* direction when refract returns none.
C18_TransmitRay ==
    /\ (probe.fn = "refract" /\ probe.done) =>
          (~probe.result.some <=>
              DiscriminantSign(probe.incident, probe.normal, probe.refractive_index) < 0)
    /\ (CastRayCalled /\ ~DepthExceeded(probe.depth) /\ FirstHit.is_intersecting
          /\ FirstHit.material.albedo[4] > 0) =>
          LET r == Refract(probe.ray_direction, FirstHit.normal, FirstHit.material.refractive_index)
              dir == IF r.some THEN r.dir
                     ELSE Normalized(Reflect(probe.ray_direction, FirstHit.normal))
          IN  CastFor("transmit") =
                  <<[term |-> "transmit", origin |-> OffsetOrigin(FirstHit, dir),
                     direction |-> dir, depth |-> probe.depth + 1]>>

\* a hit on glass for which refract returns none: the secondary ray of the
\* transmit term runs along the reflected direction
C18_Witness ==
    /\ CastRayCalled /\ ~DepthExceeded(probe.depth) /\ FirstHit.is_intersecting
    /\ FirstHit.material.albedo[4] > 0
    /\ ~Refract(probe.ray_direction, FirstHit.normal, FirstHit.material.refractive_index).some
    /\ Len(CastFor("transmit")) = 1
    /\ CastFor("transmit")[1].direction = Normalized(Reflect(probe.ray_direction, FirstHit.normal))


\* ------------------------------------------------------------ nearest hit
HitOf(k) == RayIntersect(probe.objects[k], probe.ray_origin, probe.ray_direction)
Hitters == {k \in 1..Len(probe.objects) : HitOf(k).is_intersecting}
Nearest == {k \in Hitters : \A j \in Hitters : HitOf(k).distance <= HitOf(j).distance}

\* C19: cast_ray shades the hit with the minimum t among the primitives that
\* report a hit, the first of them in list order when several report the same
\* minimum t; when no primitive reports a hit the result is the sky colour of
\* the ray direction.
C19_NearestHit ==
    (CastRayCalled /\ ~DepthExceeded(probe.depth)) =>
        IF Hitters = {}
        THEN probe.result.color = SkyColor(probe.skybox, probe.ray_direction)
        ELSE /\ probe.result.color[1] = "mix"
             /\ probe.result.color[2] = PhongColor(HitOf(FirstOf(Nearest)), TestLight)
             /\ probe.result.color[3] = HitOf(FirstOf(Nearest)).material.albedo[3]
             /\ probe.result.color[5] = HitOf(FirstOf(Nearest)).material.albedo[4]

\* two primitives of different material report the same minimum t
C19_Witness ==
    /\ CastRayCalled /\ ~DepthExceeded(probe.depth)
    /\ Nearest = {1, 2}
    /\ HitOf(1).material # HitOf(2).material
    /\ probe.result.color[2] = PhongColor(HitOf(1), TestLight)

\* ---------------------------------------------------------- adaptive pass
\* the pass made a write of this kind at pixel (x, y)
Touched(kind, x, y) ==
    \E i \in 1..Len(framebuffer.ops) : framebuffer.ops[i] = <<kind, x, y>>

\* C20: an adaptive pass at LOD 1 sets every pixel of the framebuffer, and an
\* adaptive pass at LOD 2 blends a new colour into every pixel of the
\* framebuffer; no pixel is left untouched by the pass.
C20_AdaptiveCoversAll ==
    (AfterRender /\ pass.fn = "render_adaptive" /\ pass.lod \in {1, 2}) =>
        \A x \in 0..(framebuffer.width - 1), y \in 0..(framebuffer.height - 1) :
            Touched(IF pass.lod = 1 THEN "set" ELSE "blend", x, y)

\* ------------------------------------------------------- recursion of cast_ray
\* C21: a cast_ray call terminates; an invocation casts a reflection ray only
\* if the hit material has albedo[2] > 0 and a transmit ray only if it has
\* albedo[3] > 0, each at depth + 1, so at most two; the depth argument never
\* exceeds 4 and a call at depth 0 causes at most 31 invocations.
C21_BoundedRecursion ==
    (CastRayCalled /\ probe.depth <= 4) =>
        /\ probe.result.calls >= 1
        /\ probe.result.calls <= 2 ^ (5 - probe.depth) - 1
        /\ probe.depth = 0 => probe.result.calls <= 31
        /\ probe.result.max_depth <= 4
        /\ Len(probe.result.secondary) <= 2
        /\ \A i \in 1..Len(probe.result.secondary) :
              probe.result.secondary[i].depth = probe.depth + 1
        /\ Len(CastFor("reflect")) =
              (IF ~DepthExceeded(probe.depth) /\ FirstHit.is_intersecting
                     /\ FirstHit.material.albedo[3] > 0 THEN 1 ELSE 0)
        /\ Len(CastFor("transmit")) =
              (IF ~DepthExceeded(probe.depth) /\ FirstHit.is_intersecting
                     /\ FirstHit.material.albedo[4] > 0 THEN 1 ELSE 0)

\* a primary ray whose recursion reaches depth 4 on both terms of a hit
C21_Witness ==
    /\ CastRayCalled /\ probe.depth = 0
    /\ probe.result.max_depth = 4
    /\ Len(probe.result.secondary) = 2
    /\ probe.result.calls >= 7

\* ------------------------------------------------------------- SpecAdaptive
\* One call of render_adaptive on a fresh framebuffer, for every size up to
\* MaxPassWidth x MaxPassHeight and every LOD up to MaxLod.
MaxPassWidth == 5
MaxPassHeight == 5
MaxLod == 6

InitAdaptive ==
    /\ pc = "idle"
    /\ camera = CameraNew([yaw |-> 0, pitch |-> 0, radius |-> 1])
    /\ samples_per_frame = 1
    /\ current_sample = 0
    /\ render_complete = FALSE
    /\ frames_since_camera_change = 0
    /\ use_progressive = FALSE
    /\ current_lod = 4
    /\ target_lod = 1
    /\ camera_was_changed = FALSE
    /\ pass = NoPass
    /\ hist = InitHist
    /\ \E w \in 1..MaxPassWidth, h \in 1..MaxPassHeight, lod \in 1..MaxLod :
          /\ framebuffer = FramebufferNew(w, h)
          /\ probe = [fn |-> "render_adaptive", done |-> FALSE, lod_level |-> lod]

CallRenderAdaptive ==
    /\ probe.fn = "render_adaptive" /\ ~probe.done
    /\ framebuffer' = RenderAdaptive(framebuffer, camera, probe.lod_level)
    /\ probe' = [probe EXCEPT !.done = TRUE]
    /\ UNCHANGED <<pc, camera, samples_per_frame, current_sample, render_complete,
                   frames_since_camera_change, use_progressive, current_lod, target_lod,
                   camera_was_changed, pass, hist>>

NextAdaptive == CallRenderAdaptive

SpecAdaptive == InitAdaptive /\ [][NextAdaptive]_vars

\* the writes of the pass at pixel (x, y)
WritesAt(x, y) ==
    {i \in 1..Len(framebuffer.ops) :
        framebuffer.ops[i][1] # "clear" /\ framebuffer.ops[i][2] = x /\ framebuffer.ops[i][3] = y}

\* the block size and the stride of the coarse LODs, as the claim gives them
CoarseSize(lod_level) == IF lod_level = 3 THEN 2 ELSE IF lod_level = 4 THEN 3 ELSE 4

\* C22: an adaptive pass at LOD 3, 4 or 5+ samples on a stride of 2, 3 or 4
\* pixels and splats each sample into a block of that size anchored at the
\* sampled pixel; the blocks tile the framebuffer: every pixel is set exactly
\* once per pass, with the colour of its block's sample, and no write falls
\* outside the framebuffer.
C22_BlocksTile ==
    (probe.fn = "render_adaptive" /\ probe.done /\ probe.lod_level >= 3) =>
        LET size == CoarseSize(probe.lod_level)
        IN  /\ \A x \in 0..(framebuffer.width - 1), y \in 0..(framebuffer.height - 1) :
                  /\ Cardinality(WritesAt(x, y)) = 1
                  /\ \A i \in WritesAt(x, y) : framebuffer.ops[i][1] = "set"
                  /\ LET sample == PixelColor(camera, (x \div size) * size, (y \div size) * size)
                     IN  framebuffer.pixel_data[y * framebuffer.width + x]
                            \in {sample, EdgeColor(sample)}
            /\ \A i \in 1..Len(framebuffer.ops) :
                  framebuffer.ops[i][1] # "clear" =>
                      /\ framebuffer.ops[i][2] < framebuffer.width
                      /\ framebuffer.ops[i][3] < framebuffer.height

\* a 3x3 pass over a buffer whose last blocks are clipped on both edges
C22_Witness ==
    /\ probe.fn = "render_adaptive" /\ probe.done /\ probe.lod_level = 4
    /\ framebuffer.width = 4 /\ framebuffer.height = 5
    /\ Cardinality(WritesAt(3, 4)) = 1

\* ---------------------------------------------------------------------- C23
\* The pair of local coordinates a face's UV mapping reads: (z,y) on an x
\* face, (x,z) on a y face, (x,y) on a z face.
FaceCoords(local, axis) ==
    IF axis = 1 THEN <<local[3], local[2]>>
    ELSE IF axis = 2 THEN <<local[1], local[3]>>
    ELSE <<local[1], local[2]>>

NormalAxis(normal) == CHOOSE a \in 1..3 : normal[a] # 0

OnEdge(cube, local) ==
    Cardinality({a \in 1..3 : 2 * Abs(local[a]) = cube.size}) >= 2

\* C23: for every hit the normal is a unit vector along exactly one axis and
\* the UV pair is computed from the two local coordinates of that same face,
\* (z,y) for an x normal, (x,z) for a y normal and (x,y) for a z normal, also
\* when the hit point lies on an edge or a corner of the cube.
C23_UvFaceIsNormalFace ==
    (CubeCalled /\ probe.result.is_intersecting) =>
        LET r == probe.result
            half_size == probe.cube.size \div 2
            ax == NormalAxis(r.normal)
            fc == FaceCoords(HitLocal, ax)
        IN  /\ Cardinality({a \in 1..3 : r.normal[a] # 0}) = 1
            /\ Abs(r.normal[ax]) = 1
            /\ r.u = <<fc[1] + half_size, probe.cube.size>>
            /\ r.v = <<probe.cube.size - (fc[2] + half_size), probe.cube.size>>

\* a hit on a cube edge whose two candidate faces give different UV pairs
C23_Witness ==
    /\ CubeCalled /\ probe.result.is_intersecting
    /\ OnEdge(probe.cube, HitLocal)
    /\ \E a \in 1..3 : FaceCoords(HitLocal, a) # FaceCoords(HitLocal, NormalAxis(probe.result.normal))

\* --------------------------------------------------------------- SpecTexture
\* The texture stage of cast_ray (main.rs 139-174) for the hit of one ray on
\* one cube: the texel coordinates of the normal-map and texture lookups and
\* the tangent frame of normal mapping.  Ray directions are non-zero.
MaxTexture == 2
MaxTexCoord == 2

\* material.rs 56-65, a material with a texture and a normal map
PiedraCastillo ==
    [CubeMaterial EXCEPT !.texture_id = "assets/castle_stone.png",
                         !.normal_map_id = "assets/castle_stone_normal.png"]

TexCubes == {[center |-> <<0, 0, 0>>, size |-> 2, material |-> PiedraCastillo],
             [center |-> <<0, 0, 0>>, size |-> 4, material |-> PiedraCastillo],
             [center |-> <<0, 0, 0>>, size |-> 2, material |-> CubeMaterial]}
TexOrigins == {<<x, y, z>> : x \in -MaxTexCoord..MaxTexCoord, y \in -MaxTexCoord..MaxTexCoord,
                             z \in -MaxTexCoord..MaxTexCoord} \cup {<<0, -2, GrazeCoord>>}
\* tangent-space normals a normal map can hold: flat, and tilted fully along
\* the tangent
TexNormals == {<<0, 0, 1>>, <<1, 0, 0>>}

\* (c * dim as f32) as u32 for the fraction c: the cast truncates and
\* saturates a negative value to 0
Texel(c, dim) == IF c[1] < 0 THEN 0 ELSE (c[1] * dim) \div c[2]

TexelCoords(intersect, width, height) ==
    <<Texel(intersect.u, width), Texel(intersect.v, height)>>

InTexture(texel, width, height) ==
    texel[1] \in 0..(width - 1) /\ texel[2] \in 0..(height - 1)

\* get_normal_from_map: a normal for every texel of the map; what it answers
\* outside the map is not fixed
NormalLookups(texel, width, height) ==
    IF InTexture(texel, width, height)
    THEN {[some |-> TRUE, tex_normal |-> n] : n \in TexNormals}
    ELSE {[some |-> TRUE, tex_normal |-> n] : n \in TexNormals}
         \cup {[some |-> FALSE, tex_normal |-> VZero]}

TangentArg(normal) == <<normal[2], -normal[1], 0>>

TransformedNormal(tex_normal, tangent, bitangent, normal) ==
    NormalizedOrZero(VAdd(VAdd(VScale(tangent, tex_normal[1]), VScale(bitangent, tex_normal[2])),
                          VScale(normal, tex_normal[3])))

NoStage ==
    [normal_texel |-> <<>>, mapped |-> FALSE, tangent_arg |-> <<>>, tangent |-> <<>>,
     bitangent |-> <<>>, normal |-> VZero, texture_texel |-> <<>>]

\* lines 139-158
NormalMapping(intersect, width, height, lookup) ==
    IF intersect.material.normal_map_id = NoId
    THEN [NoStage EXCEPT !.normal = intersect.normal]
    ELSE IF ~lookup.some
    THEN [NoStage EXCEPT !.normal = intersect.normal,
                         !.normal_texel = TexelCoords(intersect, width, height)]
    ELSE [NoStage EXCEPT
            !.normal_texel = TexelCoords(intersect, width, height),
            !.mapped = TRUE,
            !.tangent_arg = TangentArg(intersect.normal),
            !.tangent = NormalizedOrZero(TangentArg(intersect.normal)),
            !.bitangent = Cross(intersect.normal, NormalizedOrZero(TangentArg(intersect.normal))),
            !.normal = TransformedNormal(lookup.tex_normal,
                           NormalizedOrZero(TangentArg(intersect.normal)),
                           Cross(intersect.normal, NormalizedOrZero(TangentArg(intersect.normal))),
                           intersect.normal)]

\* lines 139-174
TextureStage(intersect, width, height, lookup) ==
    IF intersect.material.texture_id = NoId
    THEN NormalMapping(intersect, width, height, lookup)
    ELSE [NormalMapping(intersect, width, height, lookup) EXCEPT
            !.texture_texel = TexelCoords(intersect, width, height)]

InitTexture ==
    /\ LoopIdle
    /\ \E c \in TexCubes, o \in TexOrigins, d \in Directions,
          w \in 1..MaxTexture, h \in 1..MaxTexture :
          /\ d # VZero
          /\ ExactRay(o, d)
          /\ probe = [fn |-> "texture_stage", done |-> FALSE, cube |-> c,
                      ray_origin |-> o, ray_direction |-> d, width |-> w, height |-> h,
                      result |-> IntersectEmpty, stage |-> NoStage]

CallTextureStage ==
    /\ probe.fn = "texture_stage" /\ ~probe.done
    /\ LET i == NearestHit(<<probe.cube>>, 1, probe.ray_origin, probe.ray_direction,
                           [intersect |-> IntersectEmpty, inf |-> TRUE, zbuffer |-> 0])
       IN  \E lookup \in NormalLookups(TexelCoords(i, probe.width, probe.height),
                                       probe.width, probe.height) :
              probe' = [probe EXCEPT !.done = TRUE, !.result = i,
                           !.stage = IF i.is_intersecting
                                     THEN TextureStage(i, probe.width, probe.height, lookup)
                                     ELSE NoStage]
    /\ UNCHANGED loopVars

NextTexture == CallTextureStage

SpecTexture == InitTexture /\ [][NextTexture]_vars

TextureCalled == probe.fn = "texture_stage" /\ probe.done /\ probe.result.is_intersecting

InUnit(c) == 0 <= c[1] /\ c[1] <= c[2]

\* ---------------------------------------------------------------------- C24
\* C24: for every hit on a textured or normal-mapped material (u, v) lies in
\* the unit square and the texel coordinates handed to the texture lookups,
\* (trunc(u * width), trunc(v * height)), lie in [0, width) x [0, height),
\* also when the hit point lies on a face edge where u or v is 1.
C24_TexelInRange ==
    TextureCalled =>
        /\ (probe.result.material.texture_id # NoId \/ probe.result.material.normal_map_id # NoId)
              => InUnit(probe.result.u) /\ InUnit(probe.result.v)
        /\ probe.stage.normal_texel # <<>>
              => InTexture(probe.stage.normal_texel, probe.width, probe.height)
        /\ probe.stage.texture_texel # <<>>
              => InTexture(probe.stage.texture_texel, probe.width, probe.height)

IsUnit(v) == Dot(v, v) = 1

\* ---------------------------------------------------------------------- C25
\* C25: normal mapping never normalizes the zero vector: for each of the six
\* face normals the tangent (normal.y, -normal.x, 0) is non-zero, its
\* normalization is a unit vector perpendicular to the normal, and the
\* bitangent normal x tangent is a unit vector too.
C25_TangentFrame ==
    (TextureCalled /\ probe.stage.mapped) =>
        /\ probe.stage.tangent_arg # VZero
        /\ IsUnit(probe.stage.tangent)
        /\ Dot(probe.stage.tangent, probe.result.normal) = 0
        /\ IsUnit(probe.stage.bitangent)



\* ----------------------------------------------------------------- SpecScene
\* The frame loop together with the global scene rotation.  The unit of the
\* rotation angle is a quarter turn, so cos and sin are exact; the speed
\* increment is one unit and the speed limit is MaxSceneSpeed units.  probe
\* holds the scene state: the angle, the speed, the base list, the list built
\* for the current frame, and at, the position inside the input part of the
\* frame ("keys": the scene keys of the previous frame are applied, "camera":
\* the list of this frame is built).  The angle stays between 0 and MaxAngle,
\* an episode has at most MaxSceneFrames frames and the camera keys pressed
\* leave the eye in place (the camera is marked changed all the same).
\* built_angle observes the angle the list of this frame was built with, moved
\* that it differs from the angle of the list of the frame before.
MaxAngle == 5
MaxSceneSpeed == 1
MaxSceneFrames == 24
RotationSpeedIncrement == 1
ManualFactor == 5
ManualFactorShift == 10
SceneKeyNames == {"Q", "E", "A", "D", "SPACE", "R", "SHIFT"}

CosQuarter(angle) == CASE angle % 4 = 0 -> 1 [] angle % 4 = 2 -> -1 [] OTHER -> 0
SinQuarter(angle) == CASE angle % 4 = 1 -> 1 [] angle % 4 = 3 -> -1 [] OTHER -> 0

\* Matrix3::rotation_y
RotationY(angle) ==
    <<<<CosQuarter(angle), 0, SinQuarter(angle)>>,
      <<0, 1, 0>>,
      <<-SinQuarter(angle), 0, CosQuarter(angle)>>>>

\* transform_vector that multiplies by the transposed matrix
TransformVector_Transposed(m, v) ==
    <<m[1][1] * v[1] + m[2][1] * v[2] + m[3][1] * v[3],
      m[1][2] * v[1] + m[2][2] * v[2] + m[3][2] * v[3],
      m[1][3] * v[1] + m[2][3] * v[2] + m[3][3] * v[3]>>

TransformVector(m, v) ==
    <<m[1][1] * v[1] + m[1][2] * v[2] + m[1][3] * v[3],
      m[2][1] * v[1] + m[2][2] * v[2] + m[2][3] * v[3],
      m[3][1] * v[1] + m[3][2] * v[2] + m[3][3] * v[3]>>

CreateRotatedObjects(base_objects, scene_rotation_angle) ==
    [i \in 1..Len(base_objects) |->
        [base_objects[i] EXCEPT
            !.center = TransformVector(RotationY(scene_rotation_angle), base_objects[i].center)]]

\* main.rs 842-848
FrameObjects(base_objects, scene_rotation_angle) ==
    IF scene_rotation_angle = 0 THEN base_objects
    ELSE CreateRotatedObjects(base_objects, scene_rotation_angle)

BaseObjects ==
    <<[center |-> <<1, 0, -1>>, size |-> 2, material |-> PiedraCastillo],
      [center |-> <<0, 2, 3>>, size |-> 4, material |-> Glass]>>

InitScene ==
    /\ pc = "input"
    /\ camera = CameraNew([yaw |-> 0, pitch |-> 0, radius |-> 1])
    /\ framebuffer = FramebufferNew(2, 1)
    /\ samples_per_frame = 1
    /\ current_sample = 0
    /\ render_complete = FALSE
    /\ frames_since_camera_change = 0
    /\ use_progressive = FALSE
    /\ current_lod = 4
    /\ target_lod = 1
    /\ camera_was_changed = FALSE
    /\ pass = NoPass
    /\ hist = InitHist
    /\ probe = [fn |-> "scene", at |-> "keys", scene_rotation_angle |-> 0,
                scene_rotation_speed |-> 0, base_objects |-> BaseObjects, objects |-> <<>>,
                built |-> FALSE, built_angle |-> 0, moved |-> FALSE]

\* main.rs 838-848: advance the angle and build the list of the frame
SceneRotate ==
    /\ probe.fn = "scene" /\ pc = "input" /\ probe.at = "keys"
    /\ probe.scene_rotation_angle + probe.scene_rotation_speed \in 0..MaxAngle
    /\ probe' = [probe EXCEPT
          !.at = "camera",
          !.scene_rotation_angle = probe.scene_rotation_angle + probe.scene_rotation_speed,
          !.objects = FrameObjects(probe.base_objects,
                                   probe.scene_rotation_angle + probe.scene_rotation_speed),
          !.built = TRUE,
          !.built_angle = probe.scene_rotation_angle + probe.scene_rotation_speed,
          !.moved = (probe.built /\
                     probe.scene_rotation_angle + probe.scene_rotation_speed # probe.built_angle)]
    /\ UNCHANGED loopVars

\* main.rs 904-930: speed and angle after the scene keys
SceneAfter(angle, speed, keys) ==
    LET s1 == IF "Q" \in keys THEN Min(speed + RotationSpeedIncrement, MaxSceneSpeed) ELSE speed
        s2 == IF "E" \in keys THEN Max(s1 - RotationSpeedIncrement, -MaxSceneSpeed) ELSE s1
        manual_rotation_speed ==
            RotationSpeedIncrement * (IF "SHIFT" \in keys THEN ManualFactorShift ELSE ManualFactor)
        a1 == IF "A" \in keys THEN angle - manual_rotation_speed ELSE angle
        a2 == IF "D" \in keys THEN a1 + manual_rotation_speed ELSE a1
        s3 == IF "SPACE" \in keys THEN 0 ELSE s2
    IN  IF "R" \in keys THEN [angle |-> 0, speed |-> 0] ELSE [angle |-> a2, speed |-> s3]

SceneKeys ==
    /\ probe.fn = "scene" /\ pc = "reset" /\ probe.at = "camera"
    /\ \E keys \in SUBSET SceneKeyNames :
          LET after == SceneAfter(probe.scene_rotation_angle, probe.scene_rotation_speed, keys)
          IN  /\ after.angle \in 0..MaxAngle
              /\ probe' = [probe EXCEPT !.at = "keys",
                                        !.scene_rotation_angle = after.angle,
                                        !.scene_rotation_speed = after.speed]
    /\ UNCHANGED loopVars

NextScene ==
    \/ SceneRotate
    \/ Input /\ probe.at = "camera" /\ frames_since_camera_change < MaxSceneFrames
             /\ camera'.eye = camera.eye
    \/ SceneKeys
    \/ Reset /\ probe.at = "keys"
    \/ AdjustLod
    \/ RenderPhase

SpecScene == InitScene /\ [][NextScene]_vars







\* ---------------------------------------------------------------------- C26
\* the list p.objects is the base list with every center turned about the y
\* axis by the angle the frame started with
RotatedCopy(p) ==
    /\ Len(p.objects) = Len(p.base_objects)
    /\ \A i \in 1..Len(p.base_objects) :
          LET b == p.base_objects[i]
              o == p.objects[i]
              c == CosQuarter(p.built_angle)
              s == SinQuarter(p.built_angle)
          IN  /\ o.size = b.size
              /\ o.material = b.material
              /\ o.center = <<c * b.center[1] + s * b.center[3], b.center[2],
                              c * b.center[3] - s * b.center[1]>>
    /\ p.built_angle = 0 => p.objects = p.base_objects

\* C26: the primitive list of a frame is built once, at the start of the
\* frame and before the render pass, and no later step of the frame changes
\* it; it has the length and order of the base list, every primitive keeps
\* its size and material, the centers are the base centers rotated about the
\* y axis by the frame's angle, the base list is never modified, and with
\* angle 0 the list equals the base list.
C26_ListBuiltOnce ==
    [][probe.fn = "scene" =>
          /\ probe'.base_objects = BaseObjects
          /\ probe'.built => RotatedCopy(probe')
          /\ probe'.objects # probe.objects => (pc = "input" /\ probe.at = "keys")
          /\ pc = "render" => probe'.objects = probe.objects
          /\ (pc = "input" /\ probe.at = "keys")
                => probe'.built_angle = probe.scene_rotation_angle + probe.scene_rotation_speed]_vars

\* a full render pass has just used a list rotated by a quarter turn
C26_Witness ==
    /\ probe.fn = "scene" /\ probe.built /\ pc = "input"
    /\ pass.fn = "render"
    /\ probe.built_angle % 4 = 1
    /\ probe.objects # probe.base_objects

\* ---------------------------------------------------------------------- C29
SchedulerVars ==
    <<frames_since_camera_change, current_lod, target_lod, render_complete,
      use_progressive, current_sample>>

RotationChanged ==
    \/ probe'.scene_rotation_angle # probe.scene_rotation_angle
    \/ probe'.scene_rotation_speed # probe.scene_rotation_speed

\* a step that changes the rotation angle or speed changes no scheduler
\* variable, and without a camera change the reset step changes none either
RotationLeavesScheduler ==
    /\ RotationChanged =>
          UNCHANGED <<SchedulerVars, camera, camera_was_changed, framebuffer, pass>>
    /\ (pc = "reset" /\ ~camera_was_changed) => UNCHANGED SchedulerVars

\* C29 as stated: a change of the rotation angle or speed never resets the
\* episode and changes no scheduler variable, and once render_complete is
\* true no pass renders until the camera changes.
C29_NothingOnceComplete ==
    [][probe.fn = "scene" =>
          /\ RotationLeavesScheduler
          /\ (pc = "render" /\ render_complete) => pass'.fn = "none"]_vars

\* C29: a change of the rotation angle or speed never resets the episode and
\* changes no scheduler variable; a frame that finds render_complete true
\* renders nothing if it is in the full-resolution range or if progressive
\* mode was already entered, so a completed progressive sweep is not rendered
\* again until the camera changes, whatever the rotation does; the first
\* progressive frame of an episode does render although the full pass set
\* render_complete and the camera did not change.
C29_RotationIgnored ==
    [][probe.fn = "scene" =>
          /\ RotationLeavesScheduler
          /\ (pc = "render" /\ render_complete /\ (use_progressive \/ frames_since_camera_change <= 20))
                => (pass'.fn = "none" /\ framebuffer'.ops = <<>> /\ render_complete')
          /\ (pc = "render" /\ render_complete /\ ~use_progressive /\ frames_since_camera_change > 20)
                => (pass'.fn = "render_progressive" /\ pass'.start = 0)]_vars

\* the second chunk of a progressive sweep, rendered against a list built
\* with another angle than the list of the first chunk
C29_Witness ==
    /\ probe.fn = "scene" /\ pc = "input" /\ probe.at = "keys"
    /\ pass.fn = "render_progressive" /\ pass.start > 0
    /\ probe.moved

\* ---------------------------------------------------------------------- C27
\* the flag is read and cleared before the keys of the frame are applied, no
\* other step touches the camera or the flag, the reset is made exactly by a
\* frame that read the flag true, the first frame reads it true, and a pass
\* uses the camera as the keys of its frame left it
FlagTiming ==
    /\ pc = "input" =>
          /\ camera_was_changed' = camera.changed
          /\ camera_was_changed' = hist.mutated
          /\ camera'.changed = hist'.mutated
    /\ pc # "input" => (camera' = camera /\ camera_was_changed' = camera_was_changed)
    /\ (pc = "reset" /\ ~camera_was_changed) =>
          UNCHANGED <<frames_since_camera_change, current_lod, target_lod,
                      render_complete, use_progressive, current_sample>>
    /\ (pc = "reset" /\ camera_was_changed) =>
          (frames_since_camera_change' = 0 /\ current_lod' = 4
           /\ ~render_complete' /\ ~use_progressive')
    /\ (pc = "reset" /\ pass.phase = "none") => camera_was_changed
    /\ (pc = "render" /\ pass'.fn # "none") => pass'.eye = camera.eye

\* C27 as stated: the flag is read at the start of a frame, before the keys of
\* the frame move the camera, so the frame that moves the camera performs no
\* reset, renders with the moved camera under the scheduler state it found,
\* and renders nothing at all when it finds render_complete true; the next
\* frame resets; the first frame always resets.
C27_NothingIfComplete ==
    [][probe.fn = "none" =>
          /\ FlagTiming
          /\ (pc = "render" /\ hist.mutated /\ ~camera_was_changed /\ render_complete)
                => pass'.fn = "none"]_vars

\* C27: the flag is read, and cleared, at the start of a frame before the keys
\* of that frame move the camera: a frame whose keys moved the camera and
\* whose flag was read false performs no reset, a pass it runs uses the moved
\* camera, and it renders nothing if it finds render_complete true with the
\* counter at most 20 or progressive mode entered, while the first
\* progressive frame renders a chunk from cursor 0 also when it finds
\* render_complete true; the camera stays dirty and the next frame reads the
\* flag true and resets; the first frame reads the flag of the newly
\* constructed camera, true, and resets.
C27_FlagReadBeforeInput ==
    [][probe.fn = "none" =>
          /\ FlagTiming
          /\ (pc = "render" /\ render_complete
                 /\ (use_progressive \/ frames_since_camera_change <= 20)) =>
                (pass'.fn = "none" /\ framebuffer'.ops = <<>>)
          /\ (pc = "render" /\ render_complete /\ ~use_progressive
                 /\ frames_since_camera_change > 20) =>
                (pass'.fn = "render_progressive" /\ pass'.start = 0
                 /\ pass'.eye = camera.eye)]_vars

\* the end of a frame whose keys moved the camera: no reset was made, the
\* sweep of the running episode went on from its cursor with the moved
\* camera, and the camera is still dirty
C27_Witness ==
    /\ AfterRender /\ hist.mutated /\ camera.changed /\ ~camera_was_changed
    /\ pass.fn = "render_progressive" /\ pass.start > 0
    /\ pass.eye = camera.eye /\ pass.eye # CameraNew([yaw |-> 0, pitch |-> 0, radius |-> 1]).eye



\* ---------------------------------------------------------------------- C28
\* the LOD of the k-th frame of an episode, k = 1..8
EpisodeLods == <<3, 3, 2, 2, 1, 1, 1, 1>>

MaxLiveWidth == 2

InitLive == Init /\ framebuffer.width <= MaxLiveWidth /\ framebuffer.height = 1

SpecLive == InitLive /\ [][Next]_vars /\ WF_vars(Next)

\* the scheduler is at rest: the sweep is finished and the last frame ran no
\* pass and wrote nothing
Settled ==
    /\ render_complete /\ use_progressive
    /\ current_sample = TotalPixels
    /\ pass.fn = "none" /\ framebuffer.ops = <<>>

\* ---------------------------------------------------------------------- C30
\* C30: if from some frame on no key moves the camera, the scheduler
\* eventually reaches, and never leaves, a state with render_complete true
\* and the progressive cursor at W*H in which no pass runs and nothing is
\* written to the framebuffer; in every state 0 <= current_sample <= W*H,
\* only the render step changes the cursor, and inside a progressive sweep it
\* never decreases.
C30_Settles ==
    /\ [](current_sample \in 0..TotalPixels /\ samples_per_frame >= 1)
    /\ [][/\ pc # "render" => current_sample' = current_sample
          /\ (pc = "render" /\ use_progressive) => current_sample' >= current_sample
          /\ (pc = "render" /\ render_complete /\ use_progressive) =>
                (render_complete' /\ current_sample' = current_sample
                 /\ pass'.fn = "none" /\ framebuffer'.ops = <<>>)]_vars
    /\ (<>[](~hist.mutated)) => <>[]Settled

\* at rest after a sweep of more than one chunk, the camera untouched
C30_Witness ==
    /\ Settled /\ pc = "input" /\ ~hist.mutated /\ ~camera.changed
    /\ hist.sweep_calls > 1
    /\ frames_since_camera_change > 20 + hist.sweep_calls





====
